---- MODULE Spec2Model ----
(***************************************************************************)
(* State-machine model of the QuMADA measurement core:                     *)
(*   qtools/measurement/measurement.py  (MeasurementScript, CustomSweep)   *)
(*   qtools/instrument/buffer.py        (SR830Buffer, MFLIBuffer)          *)
(*                                                                         *)
(* Python dicts are TLA+ functions whose domain is the set of keys, so a   *)
(* lookup of an absent key (KeyError) is a test on DOMAIN.  Every handler  *)
(* is one atomic action; a raised exception is recorded in outcome.err     *)
(* together with the state the handler had already written.                *)
(***************************************************************************)
EXTENDS Integers, Sequences, FiniteSets, TLC

VARIABLES
    properties,           \* self.properties: gate -> parameter -> property dict
    gate_parameters,      \* self.gate_parameters, flattened in iteration order
    buffer_settings,      \* self.buffer_settings (dict)
    buffered_num_points,  \* self.buffered_num_points: <<>> unset, <<n>> set
    buffered,             \* self.buffered
    has_settings,         \* whether self.settings exists
    static_parameters, gettable_parameters, gettable_channels,
    break_conditions, dynamic_parameters, dynamic_channels,
    dynamic_sweeps, buffers,
    chVal,                \* value held by every channel
    label,                \* label of every channel
    sr_subscribed,        \* SR830Buffer._subscribed_parameters (set)
    mf_subscribed,        \* MFLIBuffer._subscribed_parameters (list)
    mf_sample_nodes,      \* MFLIBuffer._sample_nodes (list)
    mf_channel,           \* MFLIBuffer._channel
    acquisition,          \* per buffer: "idle", "running" or "stopped" device
    readResult,           \* outcome of the last Buffer.read()
    outcome,              \* last handler: name, exception, ramps it issued
    nSetups, nSteps,      \* calls made so far, for the bounds of the model
    _trigger,             \* per buffer: Buffer._trigger
    device,               \* settings the buffers wrote to their instruments
    buffer_calls,         \* calls the last ready_buffers or readout_buffers issued
    results,              \* what the last readout_buffers returned
    cls_run,              \* the hooks wrapped around the class's run, outermost first
    metadata,             \* self.metadata: the session's metadata object
    last_run,             \* the last call of run: arguments, hooks run, return value
    nRuns,                \* calls of run made so far, for the bounds of the model
    _is_triggered,        \* per DummyDac: the threading.Event it was constructed with
    Event_flag,           \* per threading.Event: its internal flag
    voltage,              \* per DummyDac: the voltage parameter, a rational
    thread,               \* per DummyDac: self.thread, an index into threads (0: none)
    threads               \* every Thread started so far, in order of creation

scriptVars == <<properties, gate_parameters, buffer_settings, buffered_num_points,
                buffered, has_settings, static_parameters, gettable_parameters,
                gettable_channels, break_conditions, dynamic_parameters,
                dynamic_channels, dynamic_sweeps, buffers>>
chanVars == <<chVal, label>>
bufVars == <<sr_subscribed, mf_subscribed, mf_sample_nodes, mf_channel, acquisition,
             readResult>>
counters == <<nSetups, nSteps>>
deviceVars == <<_trigger, device>>
coordVars == <<buffer_calls, results>>
hookVars == <<cls_run, last_run, nRuns>>
dacVars == <<_is_triggered, Event_flag, voltage, thread, threads>>
restVars == <<deviceVars, coordVars, hookVars, metadata, dacVars>>
vars == <<scriptVars, chanVars, bufVars, outcome, counters, restVars>>

-----------------------------------------------------------------------------
(* Bounds of the model *)

\* how many times setup may be called on the script
MaxSetups == 2
\* how many point-by-point channel changes a run may make
MaxSweepSteps == 2
\* how long the MFLI buffer's list of subscribed parameters may grow
MaxSubscribed == 2

-----------------------------------------------------------------------------
(* Dicts *)

EmptyDict == [k \in {} |-> 0]

\* dict.update(other)
update(d, other) ==
    [k \in DOMAIN d \cup DOMAIN other |-> IF k \in DOMAIN other THEN other[k] ELSE d[k]]

\* dict.setdefault(key, default): the dict afterwards
setdefault(d, key, default) ==
    IF key \in DOMAIN d THEN d ELSE update(d, [k \in {key} |-> default])

\* all(k in d for k in ks)
all_in(ks, d) == ks \subseteq DOMAIN d

-----------------------------------------------------------------------------
(* Rationals: sampling rates times durations, and linspace points *)

Rat(n, d) == [num |-> n, den |-> d]
RatEq(a, b) == a.num * b.den = b.num * a.den

\* int(n / d) for n, d > 0
Ceil_truncating(n, d) == n \div d
\* np.ceil(n / d) for d > 0
Ceil(n, d) == -((-n) \div d)

-----------------------------------------------------------------------------
(* The instruments, their channels and the gates of the experiment *)

Buffers == {"sr830", "mfli"}
Channels == {"dac_v", "sr_X", "sr_R", "sr_Y", "sr_f", "mf_a", "mf_b"}
NoChannel == "None"

\* Parameter.name
name(c) ==
    CASE c = "dac_v" -> "voltage"
      [] c = "sr_X" -> "X"
      [] c = "sr_R" -> "R"
      [] c = "sr_Y" -> "Y"
      [] c = "sr_f" -> "frequency"
      [] c = "mf_a" -> "demod0_x"
      [] c = "mf_b" -> "demod0_y"

\* the label the driver gives a channel
driver_label(c) ==
    CASE c = "mf_a" -> <<"x">>
      [] c = "mf_b" -> <<"y">>
      [] OTHER -> <<name(c)>>

\* channel.root_instrument
root_instrument(c) ==
    CASE c = "dac_v" -> "dac"
      [] c \in {"sr_X", "sr_R", "sr_Y", "sr_f"} -> "sr830"
      [] c \in {"mf_a", "mf_b"} -> "mfli"

PARAMETER_NAMES ==
    {"voltage", "current", "current_x_component", "current_y_component",
     "current_compliance", "amplitude", "frequency", "output_enabled",
     "time_constant", "phase", "count", "aux_voltage_1", "aux_voltage_2"}

\* str.find(sub) >= 0 on the role texts the model uses
RoleTexts == {"static", "gettable", "dynamic", "static dynamic",
              "dynamic gettable", "static gettable"}
\* a find that misses "gettable" behind "dynamic"
find_no_dynamic_gettable(text, sub) ==
    CASE sub = "static" -> text \in {"static", "static dynamic", "static gettable"}
      [] sub = "gettable" -> text \in {"gettable", "static gettable"}
      [] sub = "dynamic" -> text \in {"dynamic", "static dynamic", "dynamic gettable"}
find(text, sub) ==
    CASE sub = "static" -> text \in {"static", "static dynamic", "static gettable"}
      [] sub = "gettable" -> text \in {"gettable", "dynamic gettable", "static gettable"}
      [] sub = "dynamic" -> text \in {"dynamic", "static dynamic", "dynamic gettable"}

-----------------------------------------------------------------------------
(* Inputs of setup: the configuration surface *)

Gates == <<"topgate", "sd", "lockin">>

\* the values a property dict of the gate under test declares, per key
Declared(k) ==
    CASE k = "value" -> 3
      [] k = "start" -> 0
      [] k = "stop" -> 1
      [] k = "num_points" -> 5
      [] k = "setpoints" -> <<7, 2, 9>>
      [] k = "delay" -> 1
      [] k = "break_conditions" -> <<"val > 1">>

SweepKeys == {"value", "start", "stop", "num_points", "setpoints", "delay"}

PropertyDict(type, keys) ==
    [k \in keys \cup {"type"} |-> IF k = "type" THEN type ELSE Declared(k)]

\* the dicts of the gate under test that are combined with a second gate
PairedTopgateDicts ==
    {PropertyDict(t, K) :
        t \in RoleTexts,
        K \in {{}, {"value"}, {"start", "stop"},
               {"value", "start", "stop", "num_points", "delay"},
               {"setpoints"}, {"start", "stop", "num_points", "setpoints"}}}

\* a dynamic parameter with every combination of keys; the other roles with
\* the combinations their branches read
TopgateDicts ==
    {PropertyDict("dynamic", K) : K \in SUBSET SweepKeys} \cup PairedTopgateDicts

SdDicts ==
    {[type |-> "static", value |-> 6],
     [type |-> "gettable", break_conditions |-> <<"val > 1">>],
     [type |-> "dynamic", start |-> 2, stop |-> 8, num_points |-> 3, delay |-> 0]}

\* readout gates whose gettable channels share or do not share a buffer
ReadoutInputs ==
    LET g == [type |-> "gettable"]
    IN {[gate \in {"sd"} |-> [p \in {"current", "amplitude"} |-> g]],
        [gate \in {"sd"} |-> [p \in {"current", "phase"} |-> g]],
        [gate \in {"sd", "lockin"} |-> [p \in {"current"} |-> g]],
        [gate \in {"sd", "topgate"} |->
            IF gate = "sd" THEN [p \in {"current", "phase"} |-> g]
            ELSE [p \in {"voltage"} |->
                    [type |-> "dynamic", start |-> 0, stop |-> 1, delay |-> 1]]]}

\* the parameters argument: gate -> parameter -> property dict
ParameterInputs ==
    {[g \in {"topgate"} |-> [p \in {"voltage"} |-> d]] : d \in TopgateDicts}
    \cup {[g \in {"sd"} |-> [p \in {"current"} |-> d]] : d \in SdDicts}
    \cup ReadoutInputs
    \cup {[g \in {"topgate", "sd"} |->
             IF g = "topgate" THEN [p \in {"voltage"} |-> d1]
                              ELSE [p \in {"current"} |-> d2]] :
            d1 \in PairedTopgateDicts, d2 \in SdDicts}

\* the buffer_settings argument; burst_duration is a rational number of seconds
BufferSettingsInputs ==
    {[k \in K |-> CASE k = "num_points" -> n
                    [] k = "sampling_rate" -> sr
                    [] k = "burst_duration" -> bd] :
        K \in SUBSET {"num_points", "sampling_rate", "burst_duration"},
        n \in {5}, sr \in {10, 3}, bd \in {Rat(2, 1), Rat(3, 2)}}

SimpleBufferSettings == {EmptyDict, [num_points |-> 5]}

\* what a second call of setup adds
LaterBufferSettings ==
    {EmptyDict, [num_points |-> 4], [sampling_rate |-> 3],
     [sampling_rate |-> 3, burst_duration |-> Rat(3, 2)]}
LaterParameters ==
    {EmptyDict,
     [g \in {"topgate"} |->
        [p \in {"voltage"} |-> [type |-> "static", value |-> 5]]]}

SimpleParameters ==
    {EmptyDict,
     [g \in {"topgate"} |->
        [p \in {"voltage"} |-> [type |-> "dynamic", start |-> 0, stop |-> 1,
                                num_points |-> 5, delay |-> 1]]]}

-----------------------------------------------------------------------------
(* MeasurementScript.add_gate_parameter and setup *)

NoError == "none"
\* subscribes: the channels a handler passed to Buffer.subscribe, in call order
Outcome(op, err, ramps) == [op |-> op, err |-> err, ramps |-> ramps, subscribes |-> <<>>]

\* position of (gate, parameter) in the flattened gate_parameters, 0 if absent
IndexOf(gps, gate, parameter) ==
    LET hits == {i \in 1..Len(gps) : gps[i].gate = gate /\ gps[i].parameter = parameter}
    IN IF hits = {} THEN 0 ELSE CHOOSE i \in hits : TRUE

\* last position of a gate's entries, 0 if the gate has no dict yet
LastOfGate(gps, gate) ==
    LET hits == {i \in 1..Len(gps) : gps[i].gate = gate}
    IN IF hits = {} THEN 0 ELSE CHOOSE i \in hits : \A j \in hits : j <= i

\* gate[parameter_name] = parameter, with parameter left None by setup
add_gate_parameter(gps, parameter_name, gate_name) ==
    LET e == [gate |-> gate_name, parameter |-> parameter_name, channel |-> NoChannel]
        i == IndexOf(gps, gate_name, parameter_name)
        l == LastOfGate(gps, gate_name)
    IN IF i # 0 THEN [gps EXCEPT ![i] = e]
       ELSE IF l = 0 THEN Append(gps, e)
       ELSE SubSeq(gps, 1, l) \o <<e>> \o SubSeq(gps, l + 1, Len(gps))

\* the parameter names of a gate's dict, in the order the caller wrote them
ParameterOrder == <<"voltage", "current", "amplitude", "phase", "temperature">>
KeysInOrder(order, d) == SelectSeq(order, LAMBDA k : k \in DOMAIN d)

RECURSIVE AddParameters(_, _, _)
\* lines 214-215: st = [properties, gate_parameters, err]
AddParameters(st, gate, params) ==
    IF params = <<>> THEN st
    ELSE IF Head(params) \notin PARAMETER_NAMES
         THEN [st EXCEPT !.err = "NameError"]
         ELSE AddParameters(
                [st EXCEPT !.gate_parameters = add_gate_parameter(@, Head(params), gate)],
                gate, Tail(params))

RECURSIVE AddGates(_, _, _)
\* lines 212-215
AddGates(st, parameters, gates) ==
    IF gates = <<>> \/ st.err # NoError THEN st
    ELSE LET g == Head(gates)
             st1 == [st EXCEPT !.properties = update(@, [k \in {g} |-> parameters[g]])]
         IN AddGates(AddParameters(st1, g, KeysInOrder(ParameterOrder, parameters[g])),
                     parameters, Tail(gates))

\* _set_buffered_num_points: "raise", or the resolved self.buffered_num_points
OverdeterminedKeys == {"sampling_rate", "burst_duration", "num_points"}
\* a test that refuses num_points next to either other key
overdetermined_any_two(bs) ==
    /\ "num_points" \in DOMAIN bs
    /\ {"sampling_rate", "burst_duration"} \cap DOMAIN bs # {}
overdetermined(bs) == all_in(OverdeterminedKeys, bs)

\* the count with int() in place of int(np.ceil())
num_points_truncated(bs, old) ==
    IF "num_points" \in DOMAIN bs /\ bs["num_points"] # 0
    THEN <<bs["num_points"]>>
    ELSE IF all_in({"sampling_rate", "burst_duration"}, bs)
         THEN <<Ceil_truncating(bs["sampling_rate"] * bs["burst_duration"].num,
                                bs["burst_duration"].den)>>
         ELSE old
resolved_num_points(bs, old) ==
    IF "num_points" \in DOMAIN bs /\ bs["num_points"] # 0
    THEN <<bs["num_points"]>>
    ELSE IF all_in({"sampling_rate", "burst_duration"}, bs)
         THEN <<Ceil(bs["sampling_rate"] * bs["burst_duration"].num,
                     bs["burst_duration"].den)>>
         ELSE old

setup(parameters, buffer_settings_arg) ==
    LET bs == update(buffer_settings, buffer_settings_arg)
        st == AddGates([properties |-> properties, gate_parameters |-> gate_parameters,
                        err |-> NoError],
                       parameters, KeysInOrder(Gates, parameters))
    IN /\ nSetups < MaxSetups
       /\ nSetups > 0 => outcome.op = "setup"
       /\ nSetups' = nSetups + 1
       /\ metadata' = [metadata EXCEPT !.assigned = TRUE]
       /\ buffered' = FALSE
       /\ buffer_settings' = bs
       /\ IF overdetermined(bs)
          THEN /\ outcome' = Outcome("setup", "Exception", <<>>)
               /\ UNCHANGED <<properties, gate_parameters, buffered_num_points, has_settings>>
          ELSE /\ buffered_num_points' = resolved_num_points(bs, buffered_num_points)
               /\ has_settings' = TRUE
               /\ properties' = st.properties
               /\ gate_parameters' = st.gate_parameters
               /\ outcome' = Outcome("setup", st.err, <<>>)
       /\ UNCHANGED <<static_parameters, gettable_parameters, gettable_channels,
                      break_conditions, dynamic_parameters, dynamic_channels,
                      dynamic_sweeps, buffers, chanVars, bufVars, nSteps,
                      deviceVars, coordVars, hookVars, dacVars>>

\* gate_name=None: the parameter is stored beside the gates
NoGate == "None"

\* MeasurementScript.add_gate_parameter(parameter_name, gate_name) called on its
\* own, lines 106-117: the entries afterwards and the exception
checked_add_gate_parameter(gps, parameter_name, gate_name) ==
    IF parameter_name \notin PARAMETER_NAMES
    THEN [gate_parameters |-> gps, err |-> "NameError"]
    ELSE IF gate_name = NoGate
    THEN [gate_parameters |->
             add_gate_parameter(SelectSeq(gps, LAMBDA e : e.gate # parameter_name),
                                parameter_name, NoGate),
          err |-> NoError]
    ELSE IF IndexOf(gps, NoGate, gate_name) # 0
    THEN [gate_parameters |-> gps, err |-> "Exception"]
    ELSE [gate_parameters |-> add_gate_parameter(gps, parameter_name, gate_name),
          err |-> NoError]

\* script.add_gate_parameter(parameter_name, gate_name)
call_add_gate_parameter(parameter_name, gate_name) ==
    LET r == checked_add_gate_parameter(gate_parameters, parameter_name, gate_name)
    IN /\ gate_parameters' = r.gate_parameters
       /\ outcome' = Outcome("add_gate_parameter", r.err, <<>>)
       /\ UNCHANGED <<properties, buffer_settings, buffered_num_points, buffered,
                      has_settings, static_parameters, gettable_parameters,
                      gettable_channels, break_conditions, dynamic_parameters,
                      dynamic_channels, dynamic_sweeps, buffers, chanVars, bufVars,
                      counters, restVars>>

-----------------------------------------------------------------------------
(* Collaborators of the script: channel mapping, ramps, sweeps *)

\* the channel the instrument mapping binds to each gate parameter
MappedChannel(gate, parameter) ==
    CASE gate = "topgate" /\ parameter = "voltage" -> "dac_v"
      [] gate = "sd" /\ parameter = "current" -> "sr_X"
      [] gate = "sd" /\ parameter = "amplitude" -> "sr_R"
      [] gate = "sd" /\ parameter = "phase" -> "sr_Y"
      [] gate = "lockin" /\ parameter = "current" -> "mf_a"

\* map_gates_to_instruments(station.components, script.gate_parameters)
map_gates_to_instruments ==
    /\ \E i \in 1..Len(gate_parameters) : gate_parameters[i].channel = NoChannel
    /\ gate_parameters' =
          [i \in 1..Len(gate_parameters) |->
              [gate_parameters[i] EXCEPT
                  !.channel = MappedChannel(gate_parameters[i].gate,
                                            gate_parameters[i].parameter)]]
    /\ outcome' = Outcome("map", NoError, <<>>)
    /\ UNCHANGED <<properties, buffer_settings, buffered_num_points, buffered,
                   has_settings, static_parameters, gettable_parameters,
                   gettable_channels, break_conditions, dynamic_parameters,
                   dynamic_channels, dynamic_sweeps, buffers, chanVars, bufVars,
                   counters, restVars>>

\* a buffered measurement script switches the mode on before it initializes
set_buffered ==
    /\ has_settings
    /\ ~buffered
    /\ outcome.op \in {"setup", "map"}
    /\ buffered' = TRUE
    /\ outcome' = Outcome("set_buffered", NoError, <<>>)
    /\ UNCHANGED <<properties, gate_parameters, buffer_settings, buffered_num_points,
                   has_settings, static_parameters, gettable_parameters,
                   gettable_channels, break_conditions, dynamic_parameters,
                   dynamic_channels, dynamic_sweeps, buffers, chanVars, bufVars,
                   counters, restVars>>

\* ramp_or_set_parameter(channel, target, ...): the channel ends at target
ramp_or_set_parameter(st, channel, target) ==
    IF st.err # NoError THEN st
    ELSE IF channel = NoChannel THEN [st EXCEPT !.err = "AttributeError"]
    ELSE [st EXCEPT !.chVal[channel] = target,
                    !.ramps = Append(@, <<channel, target>>)]

\* qcodes LinSweep(param, start, stop, num_points, delay)
LinSweep(param, start, stop, num_points, delay) ==
    [cls |-> "LinSweep", param |-> param, start |-> start, stop |-> stop,
     num_points |-> num_points, delay |-> delay]

\* a CustomSweep that drops the delay it is given
CustomSweep_no_delay(param, setpoints, delay) ==
    [cls |-> "CustomSweep", param |-> param, setpoints |-> setpoints,
     num_points |-> Len(setpoints), delay |-> 0]
\* CustomSweep.__init__
CustomSweep(param, setpoints, delay) ==
    [cls |-> "CustomSweep", param |-> param, setpoints |-> setpoints,
     num_points |-> Len(setpoints), delay |-> delay]

\* np.linspace(start, stop, num): the i-th point, as a rational
linspace(start, stop, num) ==
    [i \in 1..num |->
        IF num = 1 THEN Rat(start, 1)
        ELSE Rat(start * (num - 1) + (i - 1) * (stop - start), num - 1)]

\* AbstractSweep.get_setpoints of either sweep class
get_setpoints(sweep) ==
    IF sweep.cls = "LinSweep"
    THEN linspace(sweep.start, sweep.stop, sweep.num_points)
    ELSE [i \in 1..Len(sweep.setpoints) |-> Rat(sweep.setpoints[i], 1)]

-----------------------------------------------------------------------------
(* MeasurementScript.initialize, one gate parameter at a time.             *)
(* st carries what the call has written so far; e is the (gate, parameter, *)
(* channel) triple of the loop; mode is [buffered, buffered_num_points].   *)

GP(e) == [gate |-> e.gate, parameter |-> e.parameter]
Props(st, e) == st.properties[e.gate][e.parameter]
Raise(st, err) == [st EXCEPT !.err = err]

\* a static branch that steps aside for parameters with a second role
static_branch_exclusive(st, e) ==
    LET p == Props(st, e)
    IN IF p["type"] # "static" THEN st
       ELSE IF "value" \notin DOMAIN p THEN Raise(st, "KeyError")
       ELSE [ramp_or_set_parameter(st, e.channel, p["value"])
                EXCEPT !.static_parameters = Append(@, GP(e))]
\* lines 246-261
static_branch(st, e) ==
    LET p == Props(st, e)
    IN IF ~find(p["type"], "static") THEN st
       ELSE IF "value" \notin DOMAIN p THEN Raise(st, "KeyError")
       ELSE LET s1 == ramp_or_set_parameter(
                         ramp_or_set_parameter(st, e.channel, p["value"]),
                         e.channel, p["value"])
            IN IF s1.err # NoError THEN s1
               ELSE [s1 EXCEPT !.static_parameters = Append(@, GP(e))]

\* lines 263-268
gettable_branch(st, e) ==
    LET p == Props(st, e)
        conds == IF "break_conditions" \in DOMAIN p THEN p["break_conditions"] ELSE <<>>
    IN [st EXCEPT !.gettable_parameters = Append(@, GP(e)),
                  !.gettable_channels = Append(@, e.channel),
                  !.break_conditions =
                      @ \o [i \in 1..Len(conds) |->
                              [channel |-> e.channel, break_condition |-> conds[i]]]]

\* lines 271-295 and 374-395: value, else start, else setpoints[0]
\* a chain that tries start before value
start_by_start_first(p) ==
    IF "start" \in DOMAIN p THEN [err |-> NoError, target |-> p["start"]]
    ELSE IF "value" \in DOMAIN p THEN [err |-> NoError, target |-> p["value"]]
    ELSE IF "setpoints" \notin DOMAIN p THEN [err |-> "KeyError", target |-> 0]
    ELSE IF p["setpoints"] = <<>> THEN [err |-> "IndexError", target |-> 0]
    ELSE [err |-> NoError, target |-> p["setpoints"][1]]
starting_point(p) ==
    IF "value" \in DOMAIN p THEN [err |-> NoError, target |-> p["value"]]
    ELSE IF "start" \in DOMAIN p THEN [err |-> NoError, target |-> p["start"]]
    ELSE IF "setpoints" \notin DOMAIN p THEN [err |-> "KeyError", target |-> 0]
    ELSE IF p["setpoints"] = <<>> THEN [err |-> "IndexError", target |-> 0]
    ELSE [err |-> NoError, target |-> p["setpoints"][1]]

\* append a sweep
AddSweep(st, sweep) == [st EXCEPT !.dynamic_sweeps = Append(@, sweep)]

\* properties[gate][parameter].setdefault("delay", 0), as left in self.properties
SetDefaultDelay(st, e) ==
    [st EXCEPT !.properties[e.gate][e.parameter] = setdefault(@, "delay", 0)]

\* a buffered sweep built from whatever the point count holds, even nothing
buffered_sweep_unchecked(st, e, mode) ==
    LET p == Props(st, e)
        n == IF mode.buffered_num_points = <<>> THEN 0 ELSE mode.buffered_num_points[1]
    IN IF all_in({"start", "stop", "delay"}, p)
       THEN AddSweep(st, LinSweep(e.channel, p["start"], p["stop"], n, p["delay"]))
       ELSE IF "setpoints" \notin DOMAIN p THEN Raise(st, "KeyError")
       ELSE AddSweep(SetDefaultDelay(st, e),
                     LinSweep(e.channel, p["setpoints"][1],
                              p["setpoints"][Len(p["setpoints"])], n,
                              setdefault(p, "delay", 0)["delay"]))
\* lines 299-319
buffered_sweep(st, e, mode) ==
    LET p == Props(st, e)
    IN IF all_in({"start", "stop"}, p) /\ mode.buffered_num_points = <<>>
       THEN Raise(st, "AttributeError")
       ELSE IF all_in({"start", "stop", "delay"}, p)
       THEN AddSweep(st, LinSweep(e.channel, p["start"], p["stop"],
                                  mode.buffered_num_points[1], p["delay"]))
       ELSE IF "setpoints" \notin DOMAIN p THEN Raise(st, "KeyError")
       ELSE IF p["setpoints"] = <<>> THEN Raise(st, "IndexError")
       ELSE IF mode.buffered_num_points = <<>> THEN Raise(st, "AttributeError")
       ELSE LET s1 == SetDefaultDelay(st, e)
            IN AddSweep(s1, LinSweep(e.channel, p["setpoints"][1],
                                     p["setpoints"][Len(p["setpoints"])],
                                     mode.buffered_num_points[1],
                                     Props(s1, e)["delay"]))

\* lines 320-338
unbuffered_sweep(st, e) ==
    LET p == Props(st, e)
    IN IF all_in({"start", "stop", "num_points", "delay"}, p)
       THEN AddSweep(st, LinSweep(e.channel, p["start"], p["stop"], p["num_points"],
                                  p["delay"]))
       ELSE IF "setpoints" \notin DOMAIN p THEN Raise(st, "KeyError")
       ELSE LET s1 == SetDefaultDelay(st, e)
            IN AddSweep(s1, CustomSweep(e.channel, p["setpoints"], Props(s1, e)["delay"]))

\* lines 269-338
dynamic_branch(st, e, mode) ==
    LET sp == starting_point(Props(st, e))
    IN IF sp.err # NoError THEN Raise(st, sp.err)
       ELSE LET s1 == ramp_or_set_parameter(st, e.channel, sp.target)
            IN IF s1.err # NoError THEN s1
               ELSE LET s2 == [s1 EXCEPT !.dynamic_parameters = Append(@, GP(e)),
                                         !.dynamic_channels = Append(@, e.channel)]
                    IN IF mode.buffered THEN buffered_sweep(s2, e, mode)
                       ELSE unbuffered_sweep(s2, e)

\* lines 245-338: the body of the loop for one gate parameter
classify(st, e, mode) ==
    IF e.parameter \notin DOMAIN st.properties[e.gate] THEN Raise(st, "KeyError")
    ELSE LET s1 == static_branch(st, e)
             type == Props(st, e)["type"]
         IN IF s1.err # NoError THEN s1
            ELSE IF find(type, "gettable") THEN gettable_branch(s1, e)
            ELSE IF find(type, "dynamic") THEN dynamic_branch(s1, e, mode)
            ELSE s1

RECURSIVE classify_all(_, _, _)
\* lines 244-338
classify_all(st, gps, mode) ==
    IF gps = <<>> \/ st.err # NoError THEN st
    ELSE classify_all(classify(st, Head(gps), mode), Tail(gps), mode)

-----------------------------------------------------------------------------
(* Buffers (buffer.py).  b = [sr_subscribed, mf_subscribed, mf_sample_nodes, *)
(* err] is the state a sequence of subscribe calls works on.                 *)

ch1_names == {"X", "R", "X Noise", "aux_in1", "aux_in2"}
ch2_names == {"Y", "Phase", "Y Noise", "aux_in3", "aux_in4"}

Range(seq) == {seq[i] : i \in 1..Len(seq)}

\* is_bufferable(channel): the channel exposes a _qtools_buffer that is a Buffer
is_bufferable(channel) ==
    channel \in Channels /\ root_instrument(channel) \in Buffers

\* SR830Buffer.subscribe([parameter]): the subscribed set afterwards
SR830_subscribe(subscribed, parameter) ==
    IF name(parameter) \in ch1_names
    THEN (subscribed \ {q \in subscribed : name(q) \in ch1_names}) \cup {parameter}
    ELSE (subscribed \ {q \in subscribed : name(q) \in ch2_names}) \cup {parameter}

SR830_can_buffer(parameter) == name(parameter) \in ch1_names \cup ch2_names

\* MFLIBuffer._get_node_from_parameter
_get_node_from_parameter(channel, lbl) == <<channel, lbl>>

\* Buffer.subscribe([parameter]) of the buffer that owns the parameter
subscribe(b, parameter, labels, channel) ==
    IF b.err # NoError THEN b
    ELSE IF root_instrument(parameter) = "sr830"
    THEN IF SR830_can_buffer(parameter)
         THEN [b EXCEPT !.sr_subscribed = SR830_subscribe(@, parameter)]
         ELSE [b EXCEPT !.err = "Exception"]
    ELSE LET node == _get_node_from_parameter(channel, labels[parameter])
         IN IF node \in Range(b.mf_sample_nodes) THEN b
            ELSE [b EXCEPT !.mf_subscribed = Append(@, parameter),
                           !.mf_sample_nodes = Append(@, node)]

\* a buffer set that stops at the first gettable channel
buffer_set_of_first(channels) ==
    IF channels = <<>> \/ ~is_bufferable(Head(channels)) THEN {}
    ELSE {root_instrument(Head(channels))}
\* lines 340-342: the buffers of the bufferable gettable channels
buffer_set(channels) ==
    {root_instrument(c) : c \in {x \in Range(channels) : is_bufferable(x)}}

RECURSIVE subscribe_gettables_skipping(_, _, _, _)
\* a subscription loop that passes over channels without a buffer
subscribe_gettables_skipping(b, channels, labels, channel) ==
    IF channels = <<>> \/ b.err # NoError THEN b
    ELSE IF is_bufferable(Head(channels))
         THEN subscribe_gettables_skipping(
                 [subscribe(b, Head(channels), labels, channel)
                     EXCEPT !.issued = Append(@, Head(channels))],
                 Tail(channels), labels, channel)
         ELSE subscribe_gettables_skipping(b, Tail(channels), labels, channel)

RECURSIVE subscribe_gettables(_, _, _, _)
\* lines 343-347
subscribe_gettables(b, channels, labels, channel) ==
    IF channels = <<>> \/ b.err # NoError THEN b
    ELSE IF is_bufferable(Head(channels))
         THEN subscribe_gettables(
                 [subscribe(b, Head(channels), labels, channel)
                     EXCEPT !.issued = Append(@, Head(channels))],
                 Tail(channels), labels, channel)
         ELSE [b EXCEPT !.err = "Exception"]

\* an initialize that leaves the labels as the drivers set them
relabel_skipped(st, gps) == st

RECURSIVE relabel(_, _)
\* _relabel_instruments: st = [label, err]
relabel(st, gps) ==
    IF gps = <<>> \/ st.err # NoError THEN st
    ELSE IF Head(gps).channel = NoChannel THEN [st EXCEPT !.err = "AttributeError"]
    ELSE relabel([st EXCEPT !.label[Head(gps).channel] =
                                <<Head(gps).gate, Head(gps).parameter>>],
                 Tail(gps))

-----------------------------------------------------------------------------
(* MeasurementScript.initialize *)

\* lines 232-239: the derived collections start empty on every call
FreshCollections ==
    [static_parameters |-> <<>>, gettable_parameters |-> <<>>,
     gettable_channels |-> <<>>, break_conditions |-> <<>>,
     dynamic_parameters |-> <<>>, dynamic_channels |-> <<>>, dynamic_sweeps |-> <<>>]

initialize ==
    LET mode == [buffered |-> buffered, buffered_num_points |-> buffered_num_points]
        c0 == FreshCollections
        st0 == [properties |-> properties, chVal |-> chVal, ramps |-> <<>>,
                err |-> IF has_settings THEN NoError ELSE "AttributeError",
                static_parameters |-> c0.static_parameters,
                gettable_parameters |-> c0.gettable_parameters,
                gettable_channels |-> c0.gettable_channels,
                break_conditions |-> c0.break_conditions,
                dynamic_parameters |-> c0.dynamic_parameters,
                dynamic_channels |-> c0.dynamic_channels,
                dynamic_sweeps |-> c0.dynamic_sweeps]
        st == classify_all(st0, gate_parameters, mode)
        b0 == [sr_subscribed |-> sr_subscribed, mf_subscribed |-> mf_subscribed,
               mf_sample_nodes |-> mf_sample_nodes, err |-> st.err, issued |-> <<>>]
        b == IF buffered
             THEN subscribe_gettables(b0, st.gettable_channels, label, mf_channel)
             ELSE b0
        l == relabel([label |-> label, err |-> b.err], gate_parameters)
    IN /\ outcome.op \in {"setup", "map", "set_buffered", "initialize", "reset"}
       /\ properties' = st.properties
       /\ chVal' = st.chVal
       /\ static_parameters' = st.static_parameters
       /\ gettable_parameters' = st.gettable_parameters
       /\ gettable_channels' = st.gettable_channels
       /\ break_conditions' = st.break_conditions
       /\ dynamic_parameters' = st.dynamic_parameters
       /\ dynamic_channels' = st.dynamic_channels
       /\ dynamic_sweeps' = st.dynamic_sweeps
       /\ buffers' = IF st.err = NoError /\ buffered
                     THEN buffer_set(st.gettable_channels)
                     ELSE {}
       /\ sr_subscribed' = b.sr_subscribed
       /\ mf_subscribed' = b.mf_subscribed
       /\ mf_sample_nodes' = b.mf_sample_nodes
       /\ label' = l.label
       /\ outcome' = [Outcome("initialize", l.err, st.ramps) EXCEPT !.subscribes = b.issued]
       /\ nSteps' = 0
       /\ UNCHANGED <<gate_parameters, buffer_settings, buffered_num_points, buffered,
                      has_settings, mf_channel, acquisition, readResult, nSetups, restVars>>

-----------------------------------------------------------------------------
(* The run routine steps channels; MeasurementScript.reset *)

StepValues == {9}

\* one point of a sweep: the run routine sets a mapped channel
sweep_step(channel, v) ==
    /\ outcome.op \in {"initialize", "run"}
    /\ outcome.err = NoError
    /\ nSteps < MaxSweepSteps
    /\ \E i \in 1..Len(gate_parameters) : gate_parameters[i].channel = channel
    /\ channel # NoChannel
    /\ chVal' = [chVal EXCEPT ![channel] = v]
    /\ nSteps' = nSteps + 1
    /\ outcome' = Outcome("run", NoError, <<>>)
    /\ UNCHANGED <<scriptVars, label, bufVars, nSetups, restVars>>

\* lines 366-395: the body of the loop for one gate parameter
\* a reset that leaves the dynamic parameters where they are
reset_static_only(st, e) ==
    IF e.parameter \notin DOMAIN st.properties[e.gate] THEN Raise(st, "KeyError")
    ELSE LET p == Props(st, e)
         IN IF find(p["type"], "static")
            THEN IF "value" \notin DOMAIN p THEN Raise(st, "KeyError")
                 ELSE ramp_or_set_parameter(st, e.channel, p["value"])
            ELSE st
reset_one(st, e) ==
    IF e.parameter \notin DOMAIN st.properties[e.gate] THEN Raise(st, "KeyError")
    ELSE LET p == Props(st, e)
         IN IF find(p["type"], "static")
            THEN IF "value" \notin DOMAIN p THEN Raise(st, "KeyError")
                 ELSE ramp_or_set_parameter(st, e.channel, p["value"])
            ELSE IF find(p["type"], "dynamic")
            THEN LET sp == starting_point(p)
                 IN IF sp.err # NoError THEN Raise(st, sp.err)
                    ELSE ramp_or_set_parameter(st, e.channel, sp.target)
            ELSE st

RECURSIVE reset_all(_, _)
\* lines 364-395
reset_all(st, gps) ==
    IF gps = <<>> \/ st.err # NoError THEN st
    ELSE reset_all(reset_one(st, Head(gps)), Tail(gps))

\* a reset that also throws the sweep plan away
reset_dropping_sweeps ==
    LET st == reset_all([properties |-> properties, chVal |-> chVal, ramps |-> <<>>,
                         err |-> IF has_settings THEN NoError ELSE "AttributeError"],
                        gate_parameters)
    IN /\ outcome.op \in {"initialize", "run"}
       /\ chVal' = st.chVal
       /\ dynamic_sweeps' = <<>>
       /\ outcome' = Outcome("reset", st.err, st.ramps)
       /\ UNCHANGED <<properties, gate_parameters, buffer_settings, buffered_num_points,
                      buffered, has_settings, static_parameters, gettable_parameters,
                      gettable_channels, break_conditions, dynamic_parameters,
                      dynamic_channels, buffers, label, bufVars, counters, restVars>>
\* MeasurementScript.reset
reset ==
    LET st0 == [properties |-> properties, chVal |-> chVal, ramps |-> <<>>,
                err |-> IF has_settings THEN NoError ELSE "AttributeError"]
        st == reset_all(st0, gate_parameters)
    IN /\ outcome.op \in {"initialize", "run"}
       /\ chVal' = st.chVal
       /\ outcome' = Outcome("reset", st.err, st.ramps)
       /\ UNCHANGED <<scriptVars, label, bufVars, counters, restVars>>

-----------------------------------------------------------------------------
(* The buffer interface called directly: subscribe, unsubscribe, start,    *)
(* stop, read                                                              *)

\* no read() has returned since the last other call
NoRead == [buffer |-> "none", err |-> NoError, data |-> EmptyDict]

BufferParameters == {c \in Channels : root_instrument(c) \in Buffers}
LabelChoices == {<<"x">>, <<"y">>}

RemoveFirst(seq, x) ==
    LET hits == {i \in 1..Len(seq) : seq[i] = x}
        i == CHOOSE k \in hits : \A j \in hits : k <= j
    IN SubSeq(seq, 1, i - 1) \o SubSeq(seq, i + 1, Len(seq))

\* Buffer.subscribe([parameter])
Buffer_subscribe(parameter) ==
    LET b == subscribe([sr_subscribed |-> sr_subscribed, mf_subscribed |-> mf_subscribed,
                        mf_sample_nodes |-> mf_sample_nodes, err |-> NoError],
                       parameter, label, mf_channel)
    IN /\ Len(b.mf_subscribed) <= MaxSubscribed
       /\ sr_subscribed' = b.sr_subscribed
       /\ mf_subscribed' = b.mf_subscribed
       /\ mf_sample_nodes' = b.mf_sample_nodes
       /\ outcome' = Outcome("subscribe", b.err, <<>>)
       /\ readResult' = NoRead
       /\ UNCHANGED <<scriptVars, chanVars, mf_channel, acquisition, counters, restVars>>

\* Buffer.is_subscribed(parameter)
is_subscribed(parameter) ==
    IF root_instrument(parameter) = "sr830"
    THEN parameter \in sr_subscribed
    ELSE parameter \in Range(mf_subscribed)

\* SR830Buffer.unsubscribe([parameter]) and MFLIBuffer.unsubscribe([parameter])
Buffer_unsubscribe(parameter) ==
    /\ IF root_instrument(parameter) = "sr830"
       THEN /\ UNCHANGED <<mf_subscribed, mf_sample_nodes>>
            /\ IF ~SR830_can_buffer(parameter)
               THEN /\ outcome' = Outcome("unsubscribe", "Exception", <<>>)
                    /\ UNCHANGED sr_subscribed
               ELSE IF parameter \notin sr_subscribed
               THEN /\ outcome' = Outcome("unsubscribe", "KeyError", <<>>)
                    /\ UNCHANGED sr_subscribed
               ELSE /\ sr_subscribed' = sr_subscribed \ {parameter}
                    /\ outcome' = Outcome("unsubscribe", NoError, <<>>)
       ELSE LET node == _get_node_from_parameter(mf_channel, label[parameter])
            IN /\ UNCHANGED sr_subscribed
               /\ IF node \notin Range(mf_sample_nodes)
                  THEN /\ outcome' = Outcome("unsubscribe", NoError, <<>>)
                       /\ UNCHANGED <<mf_subscribed, mf_sample_nodes>>
                  ELSE /\ mf_sample_nodes' = RemoveFirst(mf_sample_nodes, node)
                       /\ IF parameter \in Range(mf_subscribed)
                          THEN /\ mf_subscribed' = RemoveFirst(mf_subscribed, parameter)
                               /\ outcome' = Outcome("unsubscribe", NoError, <<>>)
                          ELSE /\ outcome' = Outcome("unsubscribe", "ValueError", <<>>)
                               /\ UNCHANGED mf_subscribed
    /\ readResult' = NoRead
    /\ UNCHANGED <<scriptVars, chanVars, mf_channel, acquisition, counters, restVars>>

\* Buffer.start(): the device starts acquiring
Buffer_start(b) ==
    /\ acquisition' = [acquisition EXCEPT ![b] = "running"]
    /\ outcome' = Outcome("start", NoError, <<>>)
    /\ readResult' = NoRead
    /\ UNCHANGED <<scriptVars, chanVars, sr_subscribed, mf_subscribed, mf_sample_nodes,
                   mf_channel, counters, restVars>>

\* Buffer.stop(): the device pauses or finishes the acquisition
Buffer_stop(b) ==
    /\ acquisition' = [acquisition EXCEPT ![b] = "stopped"]
    /\ outcome' = Outcome("stop", NoError, <<>>)
    /\ readResult' = NoRead
    /\ UNCHANGED <<scriptVars, chanVars, sr_subscribed, mf_subscribed, mf_sample_nodes,
                   mf_channel, counters, restVars>>

\* SR830Buffer.read(): the device refuses a trace readout while it acquires
SR830_read(subscribed, isArmed) ==
    IF isArmed /\ subscribed # {}
    THEN [err |-> "BufferException", data |-> EmptyDict]
    ELSE [err |-> NoError,
          data |-> [n \in {name(q) : q \in subscribed} |->
                       IF n \in ch1_names THEN <<"ch1_datatrace">> ELSE <<"ch2_datatrace">>]]

RECURSIVE MFLI_read_loop(_, _, _, _, _)
\* lines 285-291, over the payload of read_raw
MFLI_read_loop(result, subscribed, nodes, labels, channel) ==
    IF subscribed = <<>> THEN [err |-> NoError, data |-> result]
    ELSE LET node == _get_node_from_parameter(channel, labels[Head(subscribed)])
         IN IF node \notin Range(nodes)
            THEN [err |-> "StopIteration", data |-> EmptyDict]
            ELSE LET r1 == update(result, [k \in {name(Head(subscribed))} |->
                                              <<"value", node>>])
                     r2 == IF "timestamps" \in DOMAIN r1 THEN r1
                           ELSE update(r1, [k \in {"timestamps"} |-> <<"time", node>>])
                 IN MFLI_read_loop(r2, Tail(subscribed), nodes, labels, channel)

\* MFLIBuffer.read(); the acquisition module may refuse a read while it runs
MFLI_read(daq_raises) ==
    IF daq_raises THEN [err |-> "RuntimeError", data |-> EmptyDict]
    ELSE MFLI_read_loop(EmptyDict, mf_subscribed, mf_sample_nodes, label, mf_channel)

\* Buffer.read()
Buffer_read(b, daq_raises) ==
    /\ daq_raises => (b = "mfli" /\ acquisition[b] = "running")
    /\ LET r == IF b = "sr830" THEN SR830_read(sr_subscribed, acquisition[b] = "running")
                ELSE MFLI_read(daq_raises)
       IN /\ readResult' = [buffer |-> b, err |-> r.err, data |-> r.data]
          /\ outcome' = Outcome("read", r.err, <<>>)
    /\ UNCHANGED <<scriptVars, chanVars, sr_subscribed, mf_subscribed, mf_sample_nodes,
                   mf_channel, acquisition, counters, restVars>>

\* parameter.label = text
set_label(parameter, text) ==
    /\ label[parameter] # text
    /\ label' = [label EXCEPT ![parameter] = text]
    /\ outcome' = Outcome("label", NoError, <<>>)
    /\ readResult' = NoRead
    /\ UNCHANGED <<scriptVars, chVal, sr_subscribed, mf_subscribed, mf_sample_nodes,
                   mf_channel, acquisition, counters, restVars>>

-----------------------------------------------------------------------------
(* The trigger of a buffer and setup_buffer, called directly *)

NoTrigger == "None"
\* what a caller may assign to Buffer.trigger: None, an instance of
\* SR830Buffer.ExternalTrigger, the two trigger inputs the MFLI setter names,
\* or another parameter of the station
TriggerInputs == {NoTrigger, "ExternalTrigger", "demod0_aux_in_1", "demod0_trig_in", "dac_v"}

\* SR830Buffer.trigger = parameter
SR830_set_trigger(trig, dev, parameter) ==
    IF parameter = NoTrigger
    THEN [trigger |-> trig,
          device |-> [dev EXCEPT !.buffer_SR = <<"Hz", 512>>, !.buffer_trig_mode = "Off"],
          err |-> NoError]
    ELSE IF parameter = "ExternalTrigger"
    THEN [trigger |-> parameter,
          device |-> [dev EXCEPT !.buffer_SR = <<"Trigger", 0>>, !.buffer_trig_mode = "On"],
          err |-> NoError]
    ELSE [trigger |-> trig, device |-> dev, err |-> "BufferException"]

\* MFLIBuffer.trigger = parameter; None has no name to compare
MFLI_set_trigger(trig, dev, parameter) ==
    IF parameter = NoTrigger
    THEN [trigger |-> trig, device |-> dev, err |-> "AttributeError"]
    ELSE [trigger |-> parameter,
          device |->
             IF parameter = "demod0_aux_in_1"
             THEN [dev EXCEPT !.daq_triggernode = "/dev4039/demods/0/sample.AuxIn0",
                              !.daq_type = IF @ \in {1, 3} THEN @ ELSE 1]
             ELSE IF parameter = "demod0_trig_in"
             THEN [dev EXCEPT !.daq_triggernode = "/dev4039/demods/0/sample.TrigIn1",
                              !.daq_type = 6]
             ELSE dev,
          err |-> NoError]

\* buffer.trigger = parameter
Buffer_set_trigger(b, parameter) ==
    LET r == IF b = "sr830" THEN SR830_set_trigger(_trigger[b], device, parameter)
             ELSE MFLI_set_trigger(_trigger[b], device, parameter)
    IN /\ _trigger' = [_trigger EXCEPT ![b] = r.trigger]
       /\ device' = r.device
       /\ outcome' = Outcome("trigger", r.err, <<>>)
       /\ readResult' = NoRead
       /\ UNCHANGED <<scriptVars, chanVars, sr_subscribed, mf_subscribed, mf_sample_nodes,
                      mf_channel, acquisition, counters, coordVars, hookVars,
                      metadata, dacVars>>

\* buffer.trigger read back: MFLIBuffer defers to the abstract getter of Buffer,
\* whose body is a docstring
trigger(b) == IF b = "sr830" THEN _trigger[b] ELSE NoTrigger

\* SR830Buffer.setup_buffer(settings); st = [settings, device, channel]: the
\* caller's dict, the instruments and MFLIBuffer._channel. An empty dict is
\* replaced by a fresh one, so the caller's stays empty
SR830_setup_buffer(st) ==
    LET s == setdefault(st.settings, "sample_rate", 512)
    IN [st EXCEPT !.settings = IF @ = EmptyDict THEN @ ELSE s,
                  !.device = [@ EXCEPT !.buffer_SR = <<"Hz", s["sample_rate"]>>,
                                       !.buffer_trig_mode = "OFF"]]

\* MFLIBuffer.setup_buffer(settings)
MFLI_setup_buffer(st) ==
    LET s == setdefault(st.settings, "trigger_type", 0)
        d1 == [st.device EXCEPT !.daq_type = s["trigger_type"], !.daq_grid_mode = 2]
        d2 == IF "trigger_threshold" \in DOMAIN s
              THEN [d1 EXCEPT !.daq_level = <<s["trigger_threshold"]>>]
              ELSE d1
        d3 == IF all_in({"sample_rate", "burst_duration", "duration"}, s)
              THEN LET bd == s["burst_duration"]
                   IN [d2 EXCEPT
                         !.daq_grid_cols = <<Ceil(s["sample_rate"] * bd.num, bd.den)>>,
                         !.daq_count = <<Ceil(s["duration"] * bd.den, bd.num)>>,
                         !.daq_duration = <<bd>>]
              ELSE d2
    IN [settings |-> IF st.settings = EmptyDict THEN st.settings ELSE s,
        device |-> d3,
        channel |-> IF "channel" \in DOMAIN s THEN s["channel"] ELSE st.channel]

\* buffer.setup_buffer(settings)
setup_buffer(b, st) ==
    IF b = "sr830" THEN SR830_setup_buffer(st) ELSE MFLI_setup_buffer(st)

\* the settings a caller hands to setup_buffer directly
SetupBufferInputs ==
    {EmptyDict, [sample_rate |-> 10], [trigger_type |-> 6], [channel |-> 1],
     [trigger_threshold |-> 2],
     [sample_rate |-> 10, burst_duration |-> Rat(3, 2), duration |-> 4]}

\* buffer.setup_buffer(settings) on a dict of the caller
Buffer_setup_buffer(b, settings) ==
    LET r == setup_buffer(b, [settings |-> settings, device |-> device,
                              channel |-> mf_channel])
    IN /\ device' = r.device
       /\ mf_channel' = r.channel
       /\ outcome' = Outcome("setup_buffer", NoError, <<>>)
       /\ readResult' = NoRead
       /\ UNCHANGED <<scriptVars, chanVars, sr_subscribed, mf_subscribed, mf_sample_nodes,
                      acquisition, counters, _trigger, coordVars, hookVars,
                      metadata, dacVars>>

-----------------------------------------------------------------------------
(* MeasurementScript.ready_buffers and readout_buffers *)

\* the orders in which a for loop may go through a set
Orders(S) ==
    {o \in [1..Cardinality(S) -> S] : \A x \in S : \E i \in 1..Cardinality(S) : o[i] = x}

Call(b, op) == <<b, op>>

RECURSIVE ready_loop_start_first(_, _)
\* a loop that starts each buffer and configures it afterwards
ready_loop_start_first(st, order) ==
    IF order = <<>> THEN st
    ELSE LET b == Head(order)
             s == setup_buffer(b, [settings |-> st.settings, device |-> st.device,
                                   channel |-> st.channel])
         IN ready_loop_start_first(
                [settings |-> s.settings, device |-> s.device, channel |-> s.channel,
                 acquisition |-> [st.acquisition EXCEPT ![b] = "running"],
                 calls |-> st.calls \o <<Call(b, "start"), Call(b, "setup_buffer")>>],
                Tail(order))

RECURSIVE ready_loop(_, _)
\* lines 409-411; st = [settings, device, channel, acquisition, calls]
ready_loop(st, order) ==
    IF order = <<>> THEN st
    ELSE LET b == Head(order)
             s == setup_buffer(b, [settings |-> st.settings, device |-> st.device,
                                   channel |-> st.channel])
         IN ready_loop([settings |-> s.settings, device |-> s.device,
                        channel |-> s.channel,
                        acquisition |-> [st.acquisition EXCEPT ![b] = "running"],
                        calls |-> st.calls \o <<Call(b, "setup_buffer"), Call(b, "start")>>],
                       Tail(order))

\* MeasurementScript.ready_buffers(); order is the iteration order of the set
ready_buffers(order) ==
    LET st == ready_loop([settings |-> buffer_settings, device |-> device,
                          channel |-> mf_channel, acquisition |-> acquisition,
                          calls |-> <<>>], order)
    IN /\ outcome.op \in {"initialize", "ready_buffers", "readout_buffers"}
       /\ buffer_settings' = st.settings
       /\ device' = st.device
       /\ mf_channel' = st.channel
       /\ acquisition' = st.acquisition
       /\ buffer_calls' = st.calls
       /\ outcome' = Outcome("ready_buffers", NoError, <<>>)
       /\ readResult' = NoRead
       /\ UNCHANGED <<properties, gate_parameters, buffered_num_points, buffered,
                      has_settings, static_parameters, gettable_parameters,
                      gettable_channels, break_conditions, dynamic_parameters,
                      dynamic_channels, dynamic_sweeps, buffers, chanVars,
                      sr_subscribed, mf_subscribed, mf_sample_nodes, counters,
                      _trigger, results, hookVars, metadata, dacVars>>

\* an array element: a number, or a nested list of elements
Scalar(v) == <<"scalar", v>>
Nested(l) == <<"list", l>>

\* the array behind a payload the instrument returned: the SR830 delivers a
\* trace of numbers, the MFLI a grid of bursts
Payload(p) ==
    CASE p = <<"ch1_datatrace">> -> <<Scalar(1), Scalar(2)>>
      [] p = <<"ch2_datatrace">> -> <<Scalar(3), Scalar(4)>>
      [] OTHER -> IF p[2][1] = 0
                  THEN <<Nested(<<Scalar(5)>>), Nested(<<Scalar(6)>>)>>
                  ELSE <<Nested(<<Scalar(5), Scalar(6)>>)>>

\* flatten_array: a nested list of one element is replaced by the element
flatten_array(l) ==
    [i \in 1..Len(l) |-> IF l[i][1] = "list" /\ Len(l[i][2]) = 1 THEN l[i][2][1] ELSE l[i]]

\* a flatten that leaves the array as it is
flatten_array_identity(l) == l

RECURSIVE pairs(_, _)
\* lines 435-436 for one buffer
pairs(params, data) ==
    IF params = <<>> THEN <<>>
    ELSE <<<<Head(params), flatten_array(Payload(data[name(Head(params))]))>>>>
         \o pairs(Tail(params), data)

RECURSIVE readout_loop(_, _, _, _)
\* lines 431-440; st = [acquisition, calls, results, err, read]
readout_loop(st, order, io_fails, sr_order) ==
    IF order = <<>> \/ st.err # NoError THEN st
    ELSE LET b == Head(order)
             r == IF b = "sr830" THEN SR830_read(sr_subscribed, b \in io_fails)
                  ELSE MFLI_read(b \in io_fails)
             params == IF b = "sr830" THEN sr_order ELSE mf_subscribed
         IN readout_loop(
              [acquisition |-> [st.acquisition EXCEPT ![b] = "stopped"],
               calls |-> st.calls \o <<Call(b, "stop"), Call(b, "read")>>,
               results |-> IF r.err = NoError THEN st.results \o pairs(params, r.data)
                           ELSE st.results,
               err |-> r.err,
               read |-> [buffer |-> b, err |-> r.err, data |-> r.data]],
              Tail(order), io_fails, sr_order)

\* MeasurementScript.readout_buffers(); io_fails are the buffers whose instrument
\* fails the transfer
readout_buffers(order, io_fails, sr_order) ==
    LET st == readout_loop([acquisition |-> acquisition, calls |-> <<>>,
                            results |-> <<>>, err |-> NoError, read |-> NoRead],
                           order, io_fails, sr_order)
    IN /\ outcome.op \in {"initialize", "ready_buffers", "readout_buffers"}
       /\ acquisition' = st.acquisition
       /\ buffer_calls' = st.calls
       /\ results' = IF st.err = NoError THEN st.results ELSE <<>>
       /\ readResult' = st.read
       /\ outcome' = Outcome("readout_buffers", st.err, <<>>)
       /\ UNCHANGED <<scriptVars, chanVars, sr_subscribed, mf_subscribed,
                      mf_sample_nodes, mf_channel, counters, deviceVars, hookVars,
                      metadata, dacVars>>

-----------------------------------------------------------------------------
(* The hooks around run: create_hook, __new__ and the three hook bodies *)

\* how many instances of the script's class are constructed
MaxInstances == 2
\* how many times run is called
MaxRuns == 2

HookNames == <<"_add_datetime_to_metadata_if_empty", "_add_data_to_metadata",
               "_insert_metadata_into_db">>

\* the keyword-only parameter in a hook's signature
HookSwitch(h) ==
    CASE h = "_add_datetime_to_metadata_if_empty" -> "add_datetime_to_metadata"
      [] h = "_add_data_to_metadata" -> "add_data_to_metadata"
      [] h = "_insert_metadata_into_db" -> "insert_metadata_into_db"

\* a wrapper that calls func first and puts the hook innermost
create_hook_innermost(func, h) == func \o <<h>>
\* create_hook(func, hook): the wrapper calls hook, then func
create_hook(func, h) == <<h>> \o func

\* lines 86-88 of __new__, on the wrappers the class's run already has
wrap_run(run) ==
    create_hook(create_hook(create_hook(run, "_insert_metadata_into_db"),
                            "_add_data_to_metadata"),
                "_add_datetime_to_metadata_if_empty")

\* MeasurementScript.__new__: another instance of the class is constructed
__new__ ==
    /\ Len(cls_run) < 3 * MaxInstances
    /\ cls_run' = wrap_run(cls_run)
    /\ outcome' = Outcome("__new__", NoError, <<>>)
    /\ UNCHANGED <<scriptVars, chanVars, bufVars, counters, deviceVars, coordVars,
                   metadata, last_run, nRuns, dacVars>>

\* kwargs.get(key, default)
get(kwargs, key, default) == IF key \in DOMAIN kwargs THEN kwargs[key] ELSE default

\* a hook whose failure leaves it as an exception
hook_uncaught(h, md, kwargs, fails) ==
    IF ~get(kwargs, HookSwitch(h), TRUE)
    THEN [metadata |-> md, event |-> "skipped", err |-> NoError]
    ELSE IF ~md.assigned \/ fails
    THEN [metadata |-> md, event |-> "failed", err |-> "Exception"]
    ELSE [metadata |-> md, event |-> "done", err |-> NoError]
\* the body of a hook, lines 453-483: the metadata afterwards and what happened;
\* fails says that the metadata object or the database refuses the hook's work
hook(h, md, kwargs, fails) ==
    IF ~get(kwargs, HookSwitch(h), TRUE)
    THEN [metadata |-> md, event |-> "skipped", err |-> NoError]
    ELSE IF ~md.assigned
    THEN [metadata |-> md, event |-> "failed", err |-> NoError]
    ELSE CASE h = "_add_datetime_to_metadata_if_empty" ->
                IF fails THEN [metadata |-> md, event |-> "failed", err |-> NoError]
                ELSE [metadata |-> [md EXCEPT !.datetime = IF @ = "None" THEN "now" ELSE @],
                      event |-> "done", err |-> NoError]
           [] h = "_add_data_to_metadata" ->
                IF fails THEN [metadata |-> md, event |-> "failed", err |-> NoError]
                ELSE [metadata |-> [md EXCEPT !.data = Append(@, "ScriptData")],
                      event |-> "done", err |-> NoError]
           [] h = "_insert_metadata_into_db" ->
                [metadata |-> [md EXCEPT !.save_to_db = @ + 1],
                 event |-> IF fails THEN "failed" ELSE "done", err |-> NoError]

\* a wrapper that forwards every keyword argument
unused_kwargs_keeping(h, kwargs) == kwargs
\* lines 48-54: the keyword arguments the hook's signature leaves to **kwargs
unused_kwargs(h, kwargs) == [k \in DOMAIN kwargs \ {HookSwitch(h)} |-> kwargs[k]]

\* what the script's own run returns for the arguments it is given
run_body(args, kwargs) == <<"data", args, kwargs>>

RECURSIVE wrapper(_, _, _, _)
\* the wrappers of create_hook, lines 43-55, from the outermost inwards, down to
\* the script's own run; st = [metadata, hooks, kwargs, received, returned, err]
wrapper(run, st, args, fails) ==
    IF st.err # NoError THEN st
    ELSE IF run = <<>>
    THEN [st EXCEPT !.hooks = Append(@, <<"run", "done">>),
                    !.received = <<args, st.kwargs>>,
                    !.returned = run_body(args, st.kwargs)]
    ELSE LET h == Head(run)
             r == hook(h, st.metadata, st.kwargs, h \in fails)
         IN wrapper(Tail(run),
                    [st EXCEPT !.metadata = r.metadata,
                               !.hooks = Append(@, <<h, r.event>>),
                               !.kwargs = unused_kwargs(h, st.kwargs),
                               !.err = r.err],
                    args, fails)

NoRun == [args |-> <<>>, kwargs |-> EmptyDict, hooks |-> <<>>, received |-> <<>>,
          returned |-> <<>>]

\* the keyword arguments of a call: none, one switch or all three turned off,
\* one turned on, and one of the script's own
KwargsInputs ==
    {[k \in K |-> k = "timestamps"] :
        K \in {{}, {"add_datetime_to_metadata"}, {"add_data_to_metadata"},
               {"insert_metadata_into_db"}, {"timestamps"},
               {"insert_metadata_into_db", "timestamps"},
               {"add_datetime_to_metadata", "add_data_to_metadata",
                "insert_metadata_into_db"}}}
    \cup {[insert_metadata_into_db |-> TRUE]}
\* the hooks whose work is refused in a call: none, one, or all
FailsInputs == {{}} \cup {{HookNames[i]} : i \in 1..3} \cup {Range(HookNames)}
ArgsInputs == {<<>>, <<7>>}

\* script.run(*args, **kwargs)
run(args, kwargs, fails) ==
    LET st == wrapper(cls_run, [metadata |-> metadata, hooks |-> <<>>, kwargs |-> kwargs,
                                received |-> <<>>, returned |-> <<>>, err |-> NoError],
                      args, fails)
    IN /\ nRuns < MaxRuns
       /\ nRuns' = nRuns + 1
       /\ metadata' = st.metadata
       /\ last_run' = [args |-> args, kwargs |-> kwargs, hooks |-> st.hooks,
                       received |-> st.received, returned |-> st.returned]
       /\ outcome' = Outcome("run", st.err, <<>>)
       /\ UNCHANGED <<scriptVars, chanVars, bufVars, counters, deviceVars, coordVars,
                      cls_run, dacVars>>

-----------------------------------------------------------------------------
(* DummyDac: a voltage source whose ramps run in background threads.       *)
(* Voltages and step sizes are counted in units of 0.01 V and the          *)
(* arithmetic is exact.  Every step of a thread is one action, so that the *)
(* threads interleave with each other and with the caller.                 *)

\* instruments the program may construct
Dacs == {1, 2}
\* threads the program starts at most
MaxThreads == 2

NoEvent == "not constructed"
\* the Event that the def statement of __init__ evaluated, once, as the default
DefaultEvent == "default"
\* an Event the caller creates for one instrument and passes in
OwnEvent(d) == IF d = 1 THEN "event1" ELSE "event2"
Events == {DefaultEvent} \cup {OwnEvent(d) : d \in Dacs}

\* (start, stop, duration, stepsize) of the ramps that are requested
RampInputs == {<<0, 2, 1, 1>>, <<2, 0, 1, 1>>, <<999, 1001, 1, 1>>}

\* vals.Numbers(-10, 10) of the voltage parameter
Numbers(v) == -1000 * v.den <= v.num /\ v.num <= 1000 * v.den

\* int(n / d) for d > 0: Python truncates towards zero
int(n, d) == IF n >= 0 THEN n \div d ELSE -((-n) \div d)

\* threading.Thread(target=self.<target>, args=args, daemon=True) of instrument d
Thread(d, target, args) ==
    [dac |-> d, target |-> target, args |-> args, pc |-> "started",
     setpoints |-> <<>>, todo |-> <<>>, err |-> NoError,
     triggered_since |-> FALSE]

\* DummyDac(name, trigger_event): the instrument is registered under its name
DummyDac(d, trigger_event) ==
    /\ _is_triggered[d] = NoEvent
    /\ _is_triggered' = [_is_triggered EXCEPT ![d] = trigger_event]
    /\ voltage' = [voltage EXCEPT ![d] = Rat(0, 1)]
    /\ UNCHANGED <<Event_flag, thread, threads>>
    /\ UNCHANGED <<scriptVars, chanVars, bufVars, outcome, counters, deviceVars,
                   coordVars, hookVars, metadata>>

\* dac.force_trigger(): Event.set of the instrument's event.  Each thread of
\* this instrument that exists by now records that the call came after it.
force_trigger(d) ==
    /\ _is_triggered[d] # NoEvent
    /\ Event_flag' = [Event_flag EXCEPT ![_is_triggered[d]] = TRUE]
    /\ threads' = [i \in 1..Len(threads) |->
                      IF threads[i].dac = d
                      THEN [threads[i] EXCEPT !.triggered_since = TRUE]
                      ELSE threads[i]]
    /\ UNCHANGED <<_is_triggered, voltage, thread>>
    /\ UNCHANGED <<scriptVars, chanVars, bufVars, outcome, counters, deviceVars,
                   coordVars, hookVars, metadata>>

\* DummyDac.ramp: self.thread = Thread(target=self._run_ramp,
\* args=(self, start, stop, duration, stepsize)); self.thread.start().
\* The caller goes on at once.
DummyDac_ramp(d, start, stop, duration, stepsize) ==
    /\ _is_triggered[d] # NoEvent
    /\ Len(threads) < MaxThreads
    /\ threads' = Append(threads, Thread(d, "_run_ramp",
                                         <<d, start, stop, duration, stepsize>>))
    /\ thread' = [thread EXCEPT ![d] = Len(threads) + 1]
    /\ UNCHANGED <<_is_triggered, Event_flag, voltage>>
    /\ UNCHANGED <<scriptVars, chanVars, bufVars, outcome, counters, deviceVars,
                   coordVars, hookVars, metadata>>

\* DummyDac._triggered_ramp: the same with target=self._run_triggered_ramp,
\* args=(start, stop, duration, stepsize)
_triggered_ramp(d, start, stop, duration, stepsize) ==
    /\ _is_triggered[d] # NoEvent
    /\ Len(threads) < MaxThreads
    /\ threads' = Append(threads, Thread(d, "_run_triggered_ramp",
                                         <<start, stop, duration, stepsize>>))
    /\ thread' = [thread EXCEPT ![d] = Len(threads) + 1]
    /\ UNCHANGED <<_is_triggered, Event_flag, voltage>>
    /\ UNCHANGED <<scriptVars, chanVars, bufVars, outcome, counters, deviceVars,
                   coordVars, hookVars, metadata>>

\* what the bound method receives: the instrument, then the thread's args
positional(w) == <<w.dac>> \o w.args
\* both targets are declared (self, start, stop, duration, stepsize=0.01)
binds(w) == Len(positional(w)) \in 4..5

\* num_points = int((stop - start) / stepsize); np.linspace(start, stop, num_points)
enter_loop(w) ==
    LET a == positional(w)
        stepsize == IF Len(a) = 5 THEN a[5] ELSE 1
        num_points == int(a[3] - a[2], stepsize)
    IN IF num_points < 0
       THEN [w EXCEPT !.pc = "raised", !.err = "ValueError"]
       ELSE [w EXCEPT !.pc = "looping",
                      !.setpoints = linspace(a[2], a[3], num_points),
                      !.todo = linspace(a[2], a[3], num_points)]

\* Thread.run: self._target(*self._args)
Thread_run(i) ==
    /\ i \in 1..Len(threads)
    /\ threads[i].pc = "started"
    /\ LET w == threads[i]
       IN threads' = [threads EXCEPT ![i] =
                         IF ~binds(w)
                         THEN [w EXCEPT !.pc = "raised", !.err = "TypeError"]
                         ELSE IF w.target = "_run_triggered_ramp"
                         THEN [w EXCEPT !.pc = "waiting"]
                         ELSE enter_loop(w)]
    /\ UNCHANGED <<_is_triggered, Event_flag, voltage, thread>>
    /\ UNCHANGED <<scriptVars, chanVars, bufVars, outcome, counters, deviceVars,
                   coordVars, hookVars, metadata>>

\* self._is_triggered.wait() returns once the event's flag is set
Thread_wait(i) ==
    /\ i \in 1..Len(threads)
    /\ threads[i].pc = "waiting"
    /\ Event_flag[_is_triggered[threads[i].dac]]
    /\ threads' = [threads EXCEPT ![i] = enter_loop(threads[i])]
    /\ UNCHANGED <<_is_triggered, Event_flag, voltage, thread>>
    /\ UNCHANGED <<scriptVars, chanVars, bufVars, outcome, counters, deviceVars,
                   coordVars, hookVars, metadata>>

\* one turn of the loop: self.voltage(setpoint); sleep(duration / num_points)
Thread_step(i) ==
    /\ i \in 1..Len(threads)
    /\ threads[i].pc = "looping"
    /\ threads[i].todo # <<>>
    /\ LET w == threads[i]
           setpoint == Head(w.todo)
       IN IF Numbers(setpoint)
          THEN /\ voltage' = [voltage EXCEPT ![w.dac] = setpoint]
               /\ threads' = [threads EXCEPT ![i] = [w EXCEPT !.todo = Tail(@)]]
          ELSE /\ threads' = [threads EXCEPT ![i] =
                                 [w EXCEPT !.pc = "raised", !.err = "ValueError"]]
               /\ UNCHANGED voltage
    /\ UNCHANGED <<_is_triggered, Event_flag, thread>>
    /\ UNCHANGED <<scriptVars, chanVars, bufVars, outcome, counters, deviceVars,
                   coordVars, hookVars, metadata>>

\* the loop is exhausted and the target returns
Thread_return(i) ==
    /\ i \in 1..Len(threads)
    /\ threads[i].pc = "looping"
    /\ threads[i].todo = <<>>
    /\ threads' = [threads EXCEPT ![i] = [@ EXCEPT !.pc = "finished"]]
    /\ UNCHANGED <<_is_triggered, Event_flag, voltage, thread>>
    /\ UNCHANGED <<scriptVars, chanVars, bufVars, outcome, counters, deviceVars,
                   coordVars, hookVars, metadata>>

\* whatever thread i can do next
Thread_next(i) ==
    Thread_run(i) \/ Thread_wait(i) \/ Thread_step(i) \/ Thread_return(i)

-----------------------------------------------------------------------------
(* The script's life: construction, then its handlers in any order *)

Init ==
    /\ properties = EmptyDict
    /\ gate_parameters = <<>>
    /\ buffer_settings = EmptyDict
    /\ buffered_num_points = <<>>
    /\ buffered = FALSE
    /\ has_settings = FALSE
    /\ static_parameters = <<>>
    /\ gettable_parameters = <<>>
    /\ gettable_channels = <<>>
    /\ break_conditions = <<>>
    /\ dynamic_parameters = <<>>
    /\ dynamic_channels = <<>>
    /\ dynamic_sweeps = <<>>
    /\ buffers = {}
    /\ chVal = [c \in Channels |-> 8]
    /\ label = [c \in Channels |-> driver_label(c)]
    /\ sr_subscribed = {}
    /\ mf_subscribed = <<>>
    /\ mf_sample_nodes = <<>>
    /\ mf_channel = 0
    /\ acquisition = [b \in Buffers |-> "idle"]
    /\ readResult = NoRead
    /\ outcome = Outcome("__init__", NoError, <<>>)
    /\ nSetups = 0
    /\ nSteps = 0
    /\ _trigger = [b \in Buffers |-> NoTrigger]
    /\ device = [buffer_SR |-> <<"as found", 0>>, buffer_trig_mode |-> "as found",
                 daq_type |-> 0, daq_triggernode |-> "as found", daq_grid_mode |-> 0,
                 daq_level |-> <<>>, daq_grid_cols |-> <<>>, daq_count |-> <<>>,
                 daq_duration |-> <<>>]
    /\ buffer_calls = <<>>
    /\ results = <<>>
    /\ cls_run = wrap_run(<<>>)
    /\ metadata = [assigned |-> FALSE, datetime |-> "None", data |-> <<>>,
                   save_to_db |-> 0]
    /\ last_run = NoRun
    /\ nRuns = 0
    /\ _is_triggered = [d \in Dacs |-> NoEvent]
    /\ Event_flag = [e \in Events |-> FALSE]
    /\ voltage = [d \in Dacs |-> Rat(0, 1)]
    /\ thread = [d \in Dacs |-> 0]
    /\ threads = <<>>

Next ==
    \/ \E ps \in ParameterInputs, bs \in SimpleBufferSettings :
          nSetups = 0 /\ setup(ps, bs)
    \/ \E ps \in SimpleParameters, bs \in BufferSettingsInputs :
          nSetups = 0 /\ setup(ps, bs)
    \/ \E ps \in LaterParameters, bs \in LaterBufferSettings :
          nSetups > 0 /\ setup(ps, bs)
    \/ map_gates_to_instruments
    \/ set_buffered
    \/ initialize
    \/ \E c \in Channels, v \in StepValues : sweep_step(c, v)
    \/ reset

Spec == Init /\ [][Next]_vars

\* the buffers driven through their interface alone
BufferNext ==
    \/ \E q \in BufferParameters : Buffer_subscribe(q)
    \/ \E q \in BufferParameters : Buffer_unsubscribe(q)
    \/ \E b \in Buffers : Buffer_start(b)
    \/ \E b \in Buffers : Buffer_stop(b)
    \/ \E b \in Buffers, daq_raises \in BOOLEAN : Buffer_read(b, daq_raises)
    \/ \E q \in {"mf_a", "mf_b"}, text \in LabelChoices : set_label(q, text)

BufferSpec == Init /\ [][BufferNext]_vars

\* the buffers configured through their interface alone
TriggerNext ==
    \/ \E b \in Buffers, parameter \in TriggerInputs : Buffer_set_trigger(b, parameter)
    \/ \E b \in Buffers, settings \in SetupBufferInputs : Buffer_setup_buffer(b, settings)

TriggerSpec == Init /\ [][TriggerNext]_vars

\* the settings of a buffered measurement
ReadoutBufferSettings ==
    {[num_points |-> 5], [num_points |-> 5, channel |-> 1], [channel |-> 1]}

\* a buffered script from setup to the readout of its buffers
ReadoutNext ==
    \/ \E ps \in ReadoutInputs, bs \in ReadoutBufferSettings :
          nSetups = 0 /\ setup(ps, bs)
    \/ map_gates_to_instruments
    \/ set_buffered
    \/ initialize
    \/ \E order \in Orders(buffers) : ready_buffers(order)
    \/ \E order \in Orders(buffers), io_fails \in SUBSET buffers,
          sr_order \in Orders(sr_subscribed) :
          readout_buffers(order, io_fails, sr_order)

ReadoutSpec == Init /\ [][ReadoutNext]_vars

\* instances of one script class constructed, set up and run
HookNext ==
    \/ nSetups = 0 /\ setup(EmptyDict, EmptyDict)
    \/ __new__
    \/ \E args \in ArgsInputs, kwargs \in KwargsInputs, fails \in FailsInputs :
          run(args, kwargs, fails)

HookSpec == Init /\ [][HookNext]_vars

\* parameters by names inside and outside PARAMETER_NAMES
StoreParameters ==
    LET d == [type |-> "static", value |-> 5]
    IN {[g \in {"topgate"} |-> [p \in {"voltage"} |-> d]],
        [g \in {"topgate"} |-> [p \in {"voltage", "temperature"} |-> d]],
        [g \in {"topgate", "sd"} |->
            IF g = "topgate" THEN [p \in {"temperature"} |-> d]
            ELSE [p \in {"current"} |-> d]]}

\* the script's store of gate parameters, filled by setup and by hand
StoreNext ==
    \/ \E ps \in StoreParameters : setup(ps, EmptyDict)
    \/ \E parameter_name \in {"voltage", "current", "temperature"},
          gate_name \in {NoGate, "topgate", "sd"} :
          call_add_gate_parameter(parameter_name, gate_name)

StoreSpec == Init /\ [][StoreNext]_vars

-----------------------------------------------------------------------------
(* Properties of the script *)

Count(seq, x) == Cardinality({i \in 1..Len(seq) : seq[i] = x})
Entries == Range(gate_parameters)
Declares(e) == properties[e.gate][e.parameter]
SweepsOf(channel) == {i \in 1..Len(dynamic_sweeps) : dynamic_sweeps[i].param = channel}
InitializeReturned == outcome.op = "initialize" /\ outcome.err = NoError

GettableTexts == {"gettable", "dynamic gettable", "static gettable"}
DynamicOnlyTexts == {"dynamic", "static dynamic"}
StaticTexts == {"static", "static dynamic", "static gettable"}

AllThreeKeys(bs) == {"num_points", "sampling_rate", "burst_duration"} \subseteq DOMAIN bs
SetupStep == nSetups' = nSetups + 1

\* C2 as claimed: setup raises whenever the buffer settings hold num_points
\* together with sampling_rate or burst_duration (or both).
C2_AsClaimed ==
    (/\ outcome.op = "setup"
     /\ "num_points" \in DOMAIN buffer_settings
     /\ {"sampling_rate", "burst_duration"} \cap DOMAIN buffer_settings # {})
        => outcome.err = "Exception"

\* C2 amended: setup raises exactly when the script's buffer settings hold all
\* three of num_points, sampling_rate and burst_duration, and the raising call
\* changes no channel; with num_points and at most one of the other two it
\* resolves the buffered point count to num_points.
C2_OverdeterminedAllThree ==
    [][SetupStep =>
          /\ (outcome'.err = "Exception") <=> AllThreeKeys(buffer_settings')
          /\ outcome'.err = "Exception" => chVal' = chVal /\ outcome'.ramps = <<>>
          /\ ("num_points" \in DOMAIN buffer_settings' /\ ~AllThreeKeys(buffer_settings'))
                => buffered_num_points' = <<buffer_settings'["num_points"]>>]_vars

C2_Witness ==
    /\ outcome.op = "setup"
    /\ outcome.err = "Exception"
    /\ AllThreeKeys(buffer_settings)

\* C3: with sampling_rate and burst_duration and no num_points in the buffer
\* settings, the buffered point count is the least integer that is at least
\* sampling_rate * burst_duration; 10 and 2 give 20.
C3_CeilOfProduct ==
    ("num_points" \notin DOMAIN buffer_settings
     /\ all_in({"sampling_rate", "burst_duration"}, buffer_settings))
        => LET sr == buffer_settings["sampling_rate"]
               bd == buffer_settings["burst_duration"]
           IN /\ Len(buffered_num_points) = 1
              /\ buffered_num_points[1] * bd.den >= sr * bd.num
              /\ (buffered_num_points[1] - 1) * bd.den < sr * bd.num
              /\ (sr = 10 /\ bd = Rat(2, 1)) => buffered_num_points = <<20>>

C3_Witness ==
    /\ buffer_settings = [sampling_rate |-> 10, burst_duration |-> Rat(2, 1)]
    /\ buffered_num_points = <<20>>
    /\ outcome.op = "setup"

AllMapped == \A e \in Entries : e.channel # NoChannel

\* C4: in buffered mode with buffer settings {num_points: N}, initialize gives
\* a dynamic parameter that declares only start and stop a sweep of exactly N
\* points running from start to stop.
C4_BufferedStartStopSweep ==
    (/\ outcome.op = "initialize"
     /\ buffered
     /\ AllMapped
     /\ DOMAIN buffer_settings = {"num_points"})
        => \A e \in Entries :
              (Declares(e)["type"] = "dynamic"
               /\ DOMAIN Declares(e) = {"type", "start", "stop"})
                 => \E i \in SweepsOf(e.channel) :
                       LET pts == get_setpoints(dynamic_sweeps[i])
                       IN /\ Len(pts) = buffer_settings["num_points"]
                          /\ RatEq(pts[1], Rat(Declares(e)["start"], 1))
                          /\ RatEq(pts[Len(pts)], Rat(Declares(e)["stop"], 1))

\* C5: in unbuffered mode a dynamic, not gettable parameter that declares
\* start, stop and num_points has exactly one sweep in the plan: num_points
\* evenly spaced setpoints from start to stop, with the declared delay.
C5_UnbufferedLinearSweep ==
    (/\ outcome.op = "initialize"
     /\ ~buffered
     /\ AllMapped)
        => \A e \in Entries :
              (Declares(e)["type"] = "dynamic"
               /\ all_in({"start", "stop", "num_points"}, Declares(e)))
                 => /\ Cardinality(SweepsOf(e.channel)) = 1
                    /\ \A i \in SweepsOf(e.channel) :
                          LET pts == get_setpoints(dynamic_sweeps[i])
                              d == Declares(e)
                              n == d["num_points"]
                          IN /\ Len(pts) = n
                             /\ \A k \in 1..n :
                                   pts[k].num * (n - 1) =
                                     pts[k].den * (d["start"] * (n - 1)
                                                   + (k - 1) * (d["stop"] - d["start"]))
                             /\ "delay" \in DOMAIN d => dynamic_sweeps[i].delay = d["delay"]

FirstDeclared(d) ==
    IF "value" \in DOMAIN d THEN d["value"]
    ELSE IF "start" \in DOMAIN d THEN d["start"]
    ELSE d["setpoints"][1]
DeclaresStartingPoint(d) == {"value", "start", "setpoints"} \cap DOMAIN d # {}

\* C9: after initialize, any channel changes and a reset that returned, the
\* channel of every static parameter holds its declared value and the channel
\* of every dynamic parameter holds the first present of value, start,
\* setpoints[0].
C9_ResetRestores ==
    (outcome.op = "reset" /\ outcome.err = NoError)
        => \A e \in Entries :
              /\ Declares(e)["type"] \in StaticTexts
                    => /\ "value" \in DOMAIN Declares(e)
                       /\ chVal[e.channel] = Declares(e)["value"]
              /\ Declares(e)["type"] = "dynamic"
                    => /\ DeclaresStartingPoint(Declares(e))
                       /\ chVal[e.channel] = FirstDeclared(Declares(e))

C9_Witness ==
    /\ outcome.op = "reset"
    /\ outcome.err = NoError
    /\ nSteps > 0
    /\ \E e \in Entries :
          /\ Declares(e)["type"] = "dynamic"
          /\ "value" \notin DOMAIN Declares(e)
          /\ "start" \in DOMAIN Declares(e)
          /\ Count(dynamic_parameters, GP(e)) = 1
          /\ <<e.channel, Declares(e)["start"]>> \in Range(outcome.ramps)
    /\ \E e \in Entries : Declares(e)["type"] = "static"

\* C10: initialize sets the channel of a dynamic, not gettable parameter to
\* value if declared, else start, else setpoints[0]; when none is declared
\* initialize fails and the parameter is in neither the dynamic partition nor
\* the sweep plan.
C10_StartingPoint ==
    (outcome.op = "initialize" /\ AllMapped)
        => \A e \in Entries :
              Declares(e)["type"] \in DynamicOnlyTexts =>
                 /\ outcome.err = NoError => Count(dynamic_parameters, GP(e)) = 1
                 /\ Count(dynamic_parameters, GP(e)) > 0
                       => /\ DeclaresStartingPoint(Declares(e))
                          /\ chVal[e.channel] = FirstDeclared(Declares(e))
                 /\ ~DeclaresStartingPoint(Declares(e))
                       => /\ outcome.err # NoError
                          /\ Count(dynamic_parameters, GP(e)) = 0
                          /\ SweepsOf(e.channel) = {}

C10_Witness ==
    /\ InitializeReturned
    /\ \E e \in Entries :
          /\ Declares(e)["type"] = "dynamic"
          /\ DOMAIN Declares(e) = {"type", "setpoints", "delay"}
          /\ chVal[e.channel] = Declares(e)["setpoints"][1]
          /\ Count(dynamic_parameters, GP(e)) = 1

-----------------------------------------------------------------------------
(* Properties of the buffer interface *)

\* the channel slot a parameter is recorded on
SameSlot(a, q) ==
    /\ root_instrument(a) = root_instrument(q)
    /\ IF root_instrument(q) = "sr830"
       THEN /\ a \in sr_subscribed
            /\ \/ {name(a), name(q)} \subseteq ch1_names
               \/ {name(a), name(q)} \subseteq ch2_names
       ELSE \E i \in 1..Len(mf_subscribed) :
               /\ i <= Len(mf_sample_nodes)
               /\ mf_subscribed[i] = a
               /\ mf_sample_nodes[i] = _get_node_from_parameter(mf_channel, label[q])

\* C6: for both buffers, subscribing B to the slot that holds A raises
\* nothing, leaves is_subscribed(A) false and is_subscribed(B) true.
C6_LastSubscriberWins ==
    [][\A a, q \in BufferParameters :
          (a # q /\ SameSlot(a, q) /\ Buffer_subscribe(q))
             => /\ outcome'.err = NoError
                /\ ~is_subscribed(a)'
                /\ is_subscribed(q)']_vars

\* C7: for both buffers, read() on a buffer whose acquisition is running
\* raises instead of returning data.
C7_ReadWhileArmedRaises ==
    (readResult.buffer \in Buffers /\ acquisition[readResult.buffer] = "running")
        => readResult.err # NoError

SubscribedOn(b) == IF b = "sr830" THEN sr_subscribed ELSE Range(mf_subscribed)

\* C8: for both buffers, read() after stop() returns a mapping with one entry
\* per subscribed parameter and a "timestamps" entry.
C8_ReadHasTimestamps ==
    (/\ readResult.buffer \in Buffers
     /\ acquisition[readResult.buffer] = "stopped"
     /\ SubscribedOn(readResult.buffer) # {}
     /\ readResult.err = NoError)
        => /\ "timestamps" \in DOMAIN readResult.data
           /\ \A q \in SubscribedOn(readResult.buffer) : name(q) \in DOMAIN readResult.data

-----------------------------------------------------------------------------
(* Properties of the script: roles, sweeps and failures *)

\* C11: after an initialize that returned, every parameter whose role contains
\* "static" is once in the static partition and its channel holds the declared
\* value; one whose role is also dynamic (not gettable) is in addition once in
\* the dynamic partition with one sweep, and its channel holds value, not start.
C11_StaticFirst ==
    InitializeReturned =>
        \A e \in Entries :
            Declares(e)["type"] \in StaticTexts =>
                /\ "value" \in DOMAIN Declares(e)
                /\ Count(static_parameters, GP(e)) = 1
                /\ chVal[e.channel] = Declares(e)["value"]
                /\ <<e.channel, Declares(e)["value"]>> \in Range(outcome.ramps)
                /\ Declares(e)["type"] = "static dynamic"
                      => /\ Count(dynamic_parameters, GP(e)) = 1
                         /\ Cardinality(SweepsOf(e.channel)) = 1

C11_Witness ==
    /\ InitializeReturned
    /\ \E e \in Entries :
          /\ Declares(e)["type"] = "static dynamic"
          /\ "start" \in DOMAIN Declares(e)
          /\ Declares(e)["start"] # Declares(e)["value"]
          /\ chVal[e.channel] = Declares(e)["value"]
          /\ Count(static_parameters, GP(e)) = 1
          /\ Count(dynamic_parameters, GP(e)) = 1

\* C12: in buffered mode every sweep of the plan has the global buffered point
\* count, whatever num_points its parameter declares, and runs from start to
\* stop when the parameter declares those, otherwise from the first to the
\* last element of its setpoints.
C12_BufferedSweepShape ==
    (InitializeReturned /\ buffered) =>
        \A e \in Entries :
            \A i \in SweepsOf(e.channel) :
                LET sw == dynamic_sweeps[i]
                    d == Declares(e)
                IN /\ buffered_num_points = <<sw.num_points>>
                   /\ Len(get_setpoints(sw)) = sw.num_points
                   /\ IF all_in({"start", "stop"}, d)
                      THEN sw.start = d["start"] /\ sw.stop = d["stop"]
                      ELSE /\ "setpoints" \in DOMAIN d
                           /\ sw.start = d["setpoints"][1]
                           /\ sw.stop = d["setpoints"][Len(d["setpoints"])]

\* C13: an unbuffered initialize that returns gives a dynamic parameter that
\* lacks any of start, stop, num_points but declares setpoints exactly one
\* sweep: its setpoints are the declared sequence, its delay the declared
\* delay, or 0 when none was declared before the call.
C13_CustomSweepFromSetpoints ==
    [][(outcome'.op = "initialize" /\ outcome'.err = NoError /\ ~buffered) =>
          \A e \in Range(gate_parameters) :
              LET d == properties[e.gate][e.parameter]
                  sweeps == {i \in 1..Len(dynamic_sweeps') :
                                dynamic_sweeps'[i].param = e.channel}
              IN (/\ d["type"] \in DynamicOnlyTexts
                  /\ ~all_in({"start", "stop", "num_points"}, d)
                  /\ "setpoints" \in DOMAIN d)
                    => /\ Cardinality(sweeps) = 1
                       /\ \A i \in sweeps :
                             LET sw == dynamic_sweeps'[i]
                             IN /\ sw.cls = "CustomSweep"
                                /\ sw.setpoints = d["setpoints"]
                                /\ sw.num_points = Len(d["setpoints"])
                                /\ get_setpoints(sw) =
                                      [k \in 1..Len(d["setpoints"]) |->
                                          Rat(d["setpoints"][k], 1)]
                                /\ sw.delay = IF "delay" \in DOMAIN d
                                              THEN d["delay"] ELSE 0]_vars

C13_Witness ==
    /\ InitializeReturned
    /\ ~buffered
    /\ \E e \in Entries :
          /\ Declares(e) = [type |-> "dynamic", setpoints |-> <<7, 2, 9>>, delay |-> 1]
          /\ \E i \in SweepsOf(e.channel) :
                /\ dynamic_sweeps[i].cls = "CustomSweep"
                /\ dynamic_sweeps[i].setpoints = <<7, 2, 9>>
                /\ dynamic_sweeps[i].delay = 1

NoPointCountSupplied ==
    /\ "num_points" \notin DOMAIN buffer_settings
    /\ ~all_in({"sampling_rate", "burst_duration"}, buffer_settings)

\* C14: when the buffer settings hold neither num_points nor both of
\* sampling_rate and burst_duration, the buffered point count is unset, and a
\* buffered initialize with a dynamic parameter ends in an error with no sweep
\* in the plan.
C14_NoPointCountNoSweep ==
    NoPointCountSupplied =>
        /\ buffered_num_points = <<>>
        /\ (/\ outcome.op = "initialize"
            /\ buffered
            /\ \E e \in Entries : Declares(e)["type"] \in DynamicOnlyTexts)
              => /\ outcome.err # NoError
                 /\ dynamic_sweeps = <<>>

C14_Witness ==
    /\ NoPointCountSupplied
    /\ outcome.op = "initialize"
    /\ buffered
    /\ outcome.err = "AttributeError"
    /\ \E e \in Entries :
          /\ Declares(e)["type"] = "dynamic"
          /\ all_in({"start", "stop", "delay"}, Declares(e))
          /\ e.channel # NoChannel
          /\ outcome.ramps = <<<<e.channel, Declares(e)["start"]>>>>

\* the exceptions a faulty configuration makes setup and initialize raise
ConfigurationErrors == {"NameError", "KeyError", "IndexError", "AttributeError"}

\* C15: whenever setup fails, or initialize fails with a configuration error,
\* the failing call has ramped no channel and subscribed no buffer, and no
\* buffer has been started.
C15_FailBeforeHardware ==
    (\/ outcome.op = "setup" /\ outcome.err # NoError
     \/ outcome.op = "initialize" /\ outcome.err \in ConfigurationErrors)
        => /\ outcome.ramps = <<>>
           /\ outcome.subscribes = <<>>
           /\ \A b \in Buffers : acquisition[b] = "idle"

\* every parameter went through its branches of the classification loop
ClassificationDone ==
    \A e \in Entries :
        /\ Declares(e)["type"] \in StaticTexts => Count(static_parameters, GP(e)) = 1
        /\ Declares(e)["type"] \in GettableTexts => Count(gettable_parameters, GP(e)) = 1
        /\ Declares(e)["type"] \in DynamicOnlyTexts => SweepsOf(e.channel) # {}

\* the channels of the station whose instrument carries no buffer
WithoutBuffer == {"dac_v", NoChannel}

OwningBuffer(c) ==
    CASE c \in {"sr_X", "sr_R", "sr_Y", "sr_f"} -> "sr830"
      [] c \in {"mf_a", "mf_b"} -> "mfli"
      [] OTHER -> "none"

C18_RelabelLast ==
    [][outcome'.op = "initialize" =>
          /\ outcome'.err = NoError =>
                \A c \in Channels :
                    IF \E e \in Range(gate_parameters) : e.channel = c
                    THEN \E e \in Range(gate_parameters) :
                            e.channel = c /\ label'[c] = <<e.gate, e.parameter>>
                    ELSE label'[c] = label[c]
          /\ outcome'.err \in {"KeyError", "IndexError", "Exception"} => label' = label
          /\ \A i \in 1..Len(outcome'.subscribes) :
                LET c == outcome'.subscribes[i]
                IN OwningBuffer(c) = "mfli"
                      => <<mf_channel, label[c]>> \in Range(mf_sample_nodes')]_vars

C18_Witness ==
    /\ InitializeReturned
    /\ buffered
    /\ outcome.subscribes = <<"sr_X", "mf_a">>
    /\ label["mf_a"] = <<"lockin", "current">>
    /\ label["sr_X"] = <<"sd", "current">>
    /\ mf_sample_nodes = <<<<0, <<"x">>>>>>

\* C19: reset leaves the static, dynamic and gettable partitions, the break
\* conditions, the sweep plan, the buffer set, the buffers' subscriptions and
\* the labels as they are; it subscribes nothing and changes a channel's value
\* only by ramping it.
C19_ResetFrame ==
    [][outcome'.op = "reset" =>
          /\ UNCHANGED <<static_parameters, dynamic_parameters, dynamic_channels,
                         gettable_parameters, gettable_channels, break_conditions,
                         dynamic_sweeps, buffers, label>>
          /\ UNCHANGED <<sr_subscribed, mf_subscribed, mf_sample_nodes>>
          /\ outcome'.subscribes = <<>>
          /\ \A c \in Channels :
                chVal'[c] # chVal[c] => <<c, chVal'[c]>> \in Range(outcome'.ramps)]_vars

C19_Witness ==
    /\ outcome.op = "reset"
    /\ outcome.err = NoError
    /\ outcome.ramps # <<>>
    /\ nSteps > 0
    /\ static_parameters # <<>> \/ dynamic_parameters # <<>>
    /\ gettable_parameters # <<>>
    /\ dynamic_sweeps # <<>>
    /\ buffers # {}
    /\ sr_subscribed # {}

\* C20: an initialize called after an initialize that returned, or after the
\* reset that followed it, ends with the same static, dynamic and gettable
\* partitions, break conditions, sweep plan and buffer set as the first call.
C20_ReinitializeSame ==
    [][(/\ outcome.op \in {"initialize", "reset"}
        /\ outcome.err = NoError
        /\ ClassificationDone
        /\ outcome'.op = "initialize")
          => UNCHANGED <<static_parameters, dynamic_parameters, dynamic_channels,
                         gettable_parameters, gettable_channels, break_conditions,
                         dynamic_sweeps, buffers>>]_vars

-----------------------------------------------------------------------------
(* Properties of the buffers' triggers and of the buffer coordinator *)

\* the trigger objects a buffer's setter has a branch for
SupportedTriggers(b) ==
    IF b = "sr830" THEN {NoTrigger, "ExternalTrigger"}
    ELSE {"demod0_aux_in_1", "demod0_trig_in"}

\* C21: on every buffer, assigning a trigger the instrument does not support
\* raises the capability error and leaves the bound trigger as it was
C21_UnsupportedTriggerRaises ==
    [][\A b \in Buffers :
          \A p \in TriggerInputs \ (SupportedTriggers(b) \cup {NoTrigger}) :
          Buffer_set_trigger(b, p)
          => outcome'.err = "BufferException" /\ _trigger'[b] = _trigger[b]]_vars

\* positions of a call in the log of the last coordinator call
Positions(call) == {i \in 1..Len(buffer_calls) : buffer_calls[i] = call}

\* C22: ready_buffers calls, for each buffer of the set exactly once,
\* setup_buffer with the script's buffer_settings and then start, setup_buffer
\* before start, and calls no other buffer
C22_SetupThenStart ==
    outcome.op = "ready_buffers"
    => /\ Len(buffer_calls) = 2 * Cardinality(buffers)
       /\ \A b \in buffers :
             /\ Cardinality(Positions(Call(b, "setup_buffer"))) = 1
             /\ Cardinality(Positions(Call(b, "start"))) = 1
             /\ \A i \in Positions(Call(b, "setup_buffer")) :
                   \A j \in Positions(Call(b, "start")) : i < j
             /\ acquisition[b] = "running"
       /\ ("mfli" \in buffers /\ "channel" \in DOMAIN buffer_settings)
             => mf_channel = buffer_settings["channel"]
       /\ ("sr830" \in buffers /\ "sample_rate" \in DOMAIN buffer_settings)
             => device.buffer_SR = <<"Hz", buffer_settings["sample_rate"]>>

C22_Witness ==
    /\ outcome.op = "ready_buffers"
    /\ buffers = {"sr830", "mfli"}
    /\ buffer_calls[1] = Call("mfli", "setup_buffer")
    /\ buffer_calls[4] = Call("sr830", "start")

\* C23: start is never issued to a buffer that is already armed: a second
\* ready_buffers without a readout in between starts nothing
C23_NoStartWhileArmed ==
    [][outcome'.op = "ready_buffers"
       => \A b \in Buffers :
             acquisition[b] = "running" => Call(b, "start") \notin Range(buffer_calls')]_vars

\* the parameters subscribed on a buffer
SubscribedParameters(b) == IF b = "sr830" THEN sr_subscribed ELSE Range(mf_subscribed)

\* C24: readout_buffers stops each buffer before it reads it and returns exactly
\* one pair for each parameter subscribed on each buffer, holding the reading
\* with its single-element nesting unwrapped
C24_OnePairPerSubscribed ==
    (outcome.op = "readout_buffers" /\ outcome.err = NoError)
    => /\ \A b \in buffers :
             /\ Positions(Call(b, "stop")) # {}
             /\ \A i \in Positions(Call(b, "read")) :
                   \E j \in Positions(Call(b, "stop")) : j < i
             /\ \A p \in SubscribedParameters(b) :
                   Cardinality({i \in 1..Len(results) : results[i][1] = p}) = 1
       /\ \A i \in 1..Len(results) :
             /\ \E b \in buffers : results[i][1] \in SubscribedParameters(b)
             /\ \A k \in 1..Len(results[i][2]) :
                   results[i][2][k][1] = "list" => Len(results[i][2][k][2]) # 1

\* C25: a read() that fails ends readout_buffers with the acquisition error,
\* returns no pairs, is the last call made, and leaves every buffer stopped
\* so far stopped
C25_ReadFailureAborts ==
    (outcome.op = "readout_buffers" /\ outcome.err # NoError)
    => /\ outcome.err = "BufferException"
       /\ results = <<>>
       /\ buffer_calls # <<>>
       /\ buffer_calls[Len(buffer_calls)][2] = "read"
       /\ \A b \in Buffers :
             Positions(Call(b, "stop")) # {} => acquisition[b] = "stopped"

\* C26: after readout_buffers aborts, no buffer of the set is left armed
C26_NoBufferLeftArmed ==
    (outcome.op = "readout_buffers" /\ outcome.err # NoError)
    => \A b \in buffers : acquisition[b] # "running"

-----------------------------------------------------------------------------
(* Properties of the hooks around run *)

\* the hooks the last call of run went through, in the order it called them
HooksCalled == [i \in 1..Len(last_run.hooks) |-> last_run.hooks[i][1]]
Switches == {HookSwitch(HookNames[i]) : i \in 1..3}

\* C27 as claimed: the timestamp hook is the innermost layer around run and the
\* hook that persists the metadata is the outermost
C27_AsClaimed ==
    /\ cls_run[Len(cls_run)] = "_add_datetime_to_metadata_if_empty"
    /\ cls_run[1] = "_insert_metadata_into_db"

\* C27: every construction wraps run with the persisting hook innermost, the
\* data record hook around it and the timestamp hook outermost; a call runs the
\* layers from the outermost inwards, each hook before what it wraps, and the
\* script's own run last
C27_PersistInnermost ==
    /\ Len(cls_run) % 3 = 0
    /\ \A i \in 1..Len(cls_run) : cls_run[i] = HookNames[((i - 1) % 3) + 1]
    /\ outcome.op = "run" => HooksCalled = cls_run \o <<"run">>

C27_Witness ==
    /\ outcome.op = "run"
    /\ Len(cls_run) = 6
    /\ HooksCalled[3] = "_insert_metadata_into_db"
    /\ HooksCalled[7] = "run"

\* C28: the script's own run receives every positional argument of the call and
\* every keyword argument except the three switches of the hooks
C28_SwitchesStripped ==
    outcome.op = "run"
    => /\ Len(last_run.received) = 2
       /\ last_run.received[1] = last_run.args
       /\ last_run.received[2] =
             [k \in DOMAIN last_run.kwargs \ Switches |-> last_run.kwargs[k]]

C28_Witness ==
    /\ outcome.op = "run"
    /\ last_run.args = <<7>>
    /\ DOMAIN last_run.kwargs = {"insert_metadata_into_db", "timestamps"}
    /\ DOMAIN last_run.received[2] = {"timestamps"}

\* C29: a hook whose body fails does not end the call: every layer's hook is
\* still called, the script's own run is called last and its return value is
\* what the call returns
C29_HookFailureCaught ==
    outcome.op = "run"
    => /\ outcome.err = NoError
       /\ Len(last_run.hooks) = Len(cls_run) + 1
       /\ last_run.hooks[Len(last_run.hooks)] = <<"run", "done">>
       /\ last_run.returned = run_body(last_run.args, last_run.received[2])

C29_Witness ==
    /\ outcome.op = "run"
    /\ metadata.assigned
    /\ last_run.hooks[1] = <<"_add_datetime_to_metadata_if_empty", "failed">>
    /\ last_run.hooks[2] = <<"_add_data_to_metadata", "done">>
    /\ last_run.hooks[3] = <<"_insert_metadata_into_db", "done">>
    /\ last_run.returned # <<>>

\* C30: a call of run with a hook's switch set to False leaves that hook without
\* effect in that call: with insert_metadata_into_db=False save_to_db is not
\* called
C30_SwitchedOffHookSkipped ==
    [][(outcome'.op = "run" /\ nRuns' = nRuns + 1)
       => \A i \in 1..3 :
             (HookSwitch(HookNames[i]) \in DOMAIN last_run'.kwargs
              /\ ~last_run'.kwargs[HookSwitch(HookNames[i])])
             => /\ \A j \in 1..Len(last_run'.hooks) :
                      last_run'.hooks[j][1] = HookNames[i]
                      => last_run'.hooks[j][2] = "skipped"
                /\ (i = 3 => metadata'.save_to_db = metadata.save_to_db)]_vars

-----------------------------------------------------------------------------
(* Properties of the parameter store *)

\* every stored name is in the allow-list and stored once in its gate
AllowedAndUnique ==
    \A i \in 1..Len(gate_parameters) :
       /\ gate_parameters[i].parameter \in PARAMETER_NAMES
       /\ \A j \in 1..Len(gate_parameters) :
             (gate_parameters[j].gate = gate_parameters[i].gate
              /\ gate_parameters[j].parameter = gate_parameters[i].parameter) => i = j

\* C31: every stored parameter name is in PARAMETER_NAMES and occurs once in its
\* gate, and a call that names a parameter outside the list raises and adds no
\* entry to gate_parameters
C31_AllowListKept ==
    [][/\ AllowedAndUnique'
       /\ outcome'.err = "NameError" => gate_parameters' = gate_parameters]_vars

-----------------------------------------------------------------------------
(* Further properties of the buffers *)

\* the parameters a buffer can take: SR830 display names, MFLI sample fields
Bufferable == {q \in BufferParameters : root_instrument(q) = "sr830" => SR830_can_buffer(q)}

\* C32: unsubscribe of a bufferable parameter that is not subscribed raises
\* nothing and changes no subscription; unsubscribe of a subscribed parameter
\* leaves it not subscribed and the other subscriptions as they were
C32_UnsubscribeFrame ==
    [][\A q \in Bufferable :
          Buffer_unsubscribe(q)
          => IF ~is_subscribed(q)
             THEN /\ outcome'.err = NoError
                  /\ UNCHANGED <<sr_subscribed, mf_subscribed>>
             ELSE /\ q \notin sr_subscribed'
                  /\ q \notin Range(mf_subscribed')
                  /\ sr_subscribed' = sr_subscribed \ {q}
                  /\ Range(mf_subscribed') = Range(mf_subscribed) \ {q}]_vars

-----------------------------------------------------------------------------
(* Further properties of the hooks *)

\* C33: one call of run calls each of the three hooks exactly once, however many
\* instances of the class were constructed before
C33_EachHookOnce ==
    outcome.op = "run"
    => \A i \in 1..3 : Count(HooksCalled, HookNames[i]) = 1

-----------------------------------------------------------------------------
(* Further properties of the script *)

\* C34: after setup(buffer_settings=S) the script's buffer_settings and its
\* buffered point count are what S alone gives, whatever earlier setup calls
\* were passed
C34_SettingsFromArgumentAlone ==
    [][\A ps \in LaterParameters, bs \in LaterBufferSettings :
          (nSetups > 0 /\ setup(ps, bs) /\ outcome'.err = NoError)
          => /\ buffer_settings' = bs
             /\ buffered_num_points' = resolved_num_points(bs, <<>>)]_vars

\* C35: a successful buffered initialize, ready_buffers and readout_buffers yield
\* exactly one pair for every parameter of the gettable partition and none for
\* any other parameter, also when gettable channels share a buffer
C35_OnePairPerGettable ==
    [][(/\ outcome.op = "ready_buffers"
        /\ buffers # {}
        /\ outcome'.op = "readout_buffers"
        /\ outcome'.err = NoError)
       => /\ \A c \in Range(gettable_channels) :
                Cardinality({i \in 1..Len(results') : results'[i][1] = c}) = 1
          /\ \A i \in 1..Len(results') : results'[i][1] \in Range(gettable_channels)]_vars

\* C36: the sample node an MFLI parameter resolves to stays the one it was
\* subscribed under, so every subscribed parameter is held once and its node
\* is among the subscribed nodes when it is read or unsubscribed
C36_NodeStable ==
    \A i \in 1..Len(mf_subscribed) :
       /\ _get_node_from_parameter(mf_channel, label[mf_subscribed[i]])
             \in Range(mf_sample_nodes)
       /\ Count(mf_subscribed, mf_subscribed[i]) = 1

\* C37: a reset after an initialize that returned ramps only channels whose
\* parameter is in the static or the dynamic partition, and does not fail: a
\* parameter classified as gettable only is left alone
C37_ResetOnlyPartitions ==
    [][(InitializeReturned /\ outcome'.op = "reset")
       => /\ outcome'.err = NoError
          /\ \A i \in 1..Len(outcome'.ramps) :
                \E e \in Entries :
                   /\ e.channel = outcome'.ramps[i][1]
                   /\ GP(e) \in Range(static_parameters) \cup Range(dynamic_parameters)]_vars

\* C38: reading trigger returns what was assigned last: the supported trigger
\* after it was assigned, None after None was assigned
C38_TriggerReadsBack ==
    [][\A b \in Buffers :
          \A p \in SupportedTriggers(b) \cup {NoTrigger} :
             (Buffer_set_trigger(b, p) /\ outcome'.err = NoError) => trigger(b)' = p]_vars

-----------------------------------------------------------------------------
(* The DummyDac on its own: instruments are constructed, ramps are started *)
(* and triggers are forced in any order while the threads run.             *)

DacNext ==
    \/ \E d \in Dacs : \E e \in {DefaultEvent, OwnEvent(d)} : DummyDac(d, e)
    \/ \E d \in Dacs : force_trigger(d)
    \/ \E d \in Dacs : \E r \in RampInputs : DummyDac_ramp(d, r[1], r[2], r[3], r[4])
    \/ \E d \in Dacs : \E r \in RampInputs : _triggered_ramp(d, r[1], r[2], r[3], r[4])
    \/ \E i \in 1..MaxThreads : Thread_run(i)
    \/ \E i \in 1..MaxThreads : Thread_wait(i)
    \/ \E i \in 1..MaxThreads : Thread_step(i)
    \/ \E i \in 1..MaxThreads : Thread_return(i)

DacSpec == Init /\ [][DacNext]_vars

\* the interpreter keeps scheduling every thread that can run
FairDacSpec == DacSpec /\ \A i \in 1..MaxThreads : WF_vars(Thread_next(i))

\* the stop that the caller of ramp or _triggered_ramp passed for thread w
stop_passed(w) == IF w.target = "_run_ramp" THEN w.args[3] ELSE w.args[2]

\* thread i was started by DummyDac.ramp
ramp_started(i) == Len(threads) >= i /\ threads[i].target = "_run_ramp"
\* thread i has returned from a loop that set the voltage, which is stop now
ramp_at_stop(i) ==
    /\ Len(threads) >= i
    /\ threads[i].pc = "finished"
    /\ threads[i].setpoints # <<>>
    /\ RatEq(voltage[threads[i].dac], Rat(stop_passed(threads[i]), 1))

\* C39: whatever start and stop are, the worker that ramp starts eventually
\* terminates after stepping through its setpoints, the last of which is
\* stop, and the voltage of its instrument is stop then
C39_RampReachesStop ==
    \A i \in 1..MaxThreads : ramp_started(i) ~> ramp_at_stop(i)

\* C40: a triggered ramp gets past its wait, and so to its first voltage
\* step, only if force_trigger was called on its own instrument after the
\* ramp was started
C40_ReleasedOnlyByOwnLaterTrigger ==
    \A i \in 1..Len(threads) :
        (threads[i].target = "_run_triggered_ramp"
            /\ threads[i].pc \notin {"started", "waiting"})
        => threads[i].triggered_since

====
